---- MODULE Spec2Model ----
(***************************************************************************)
(* Camera session state machine of the camera_desktop plugin, in its two   *)
(* platform variants:                                                      *)
(*   - the GStreamer variant  (src/linux/camera.cc, record_handler.cc)     *)
(*   - the Media Foundation variant (src/windows/camera.cpp)               *)
(* The variables of the GStreamer variant carry the prefix L_, those of    *)
(* the Media Foundation variant the prefix W_.  Every handler is cut into  *)
(* steps at its accesses to state shared with another thread.              *)
(***************************************************************************)
EXTENDS Integers, Sequences, FiniteSets, TLC

(***************************************************************************)
(* Bounds of the model                                                     *)
(***************************************************************************)
\* Initialize() calls issued per session
MaxInit == 2
\* takePicture / startVideoRecording / stopVideoRecording calls, each
MaxCmd == 1
\* frames the capture collaborator delivers per session
MaxFrames == 2
\* frames delivered to a session that is driven through the plugin
MaxPluginFrames == 1
\* error events the collaborator (bus / engine) raises per session
MaxErrors == 1
\* Dispose() calls per caller thread
MaxDispose == 1
\* startVideoRecording calls in a session that records more than once
MaxRec == 2
\* RecordHandler::Stop calls
MaxStop == 2
\* frames offered to RecordHandler::AppendFrame
MaxAppend == 10
\* samples the audio device delivers when only audio is fed
MaxSamples == 65
\* frames, and samples, of a recording fed with both
MaxMixed == 3
\* calls of Update and of Obtain on the texture
MaxUpdates == 3
MaxObtain == 3
\* calls of StartImageStream and StopImageStream on the stream threads
MaxToggle == 5
\* frame callbacks, control calls and Dispose calls in a teardown race, and
\* the largest stream block (in frames' sizes)
MaxPosts == 3
MaxControl == 3
MaxTeardown == 2
MaxBlock == 2
\* frames a full rec_queue holds (max-size-time, max-size-bytes), and the
\* frames the source delivers to the tee
MaxRecQueue == 2
\* frames or samples posted to a loop that waits on a condition variable
MaxWork == 2
MaxTee == 4
D_Sizes == 1..MaxBlock

(***************************************************************************)
(* Values                                                                  *)
(***************************************************************************)
CameraState == {"Created", "Initializing", "Running", "Paused", "Disposing", "Disposed"}

\* <<width, height>> the device can negotiate (spec section 8 uses 1280x720)
FrameDims == {<<1280, 720>>}

Ops == {"initialize", "takePicture", "startVideoRecording", "stopVideoRecording"}

MaxCalls(op) == IF op = "initialize" THEN MaxInit
                ELSE IF op \in {"startVideoRecording", "stopVideoRecording"} THEN MaxRec
                ELSE MaxCmd

CallIds == UNION {{<<op, n>> : n \in 1..MaxCalls(op)} : op \in Ops}

\* a completion delivered to a method call
Err(code, msg) == [ok |-> FALSE, code |-> code, msg |-> msg, w |-> 0, h |-> 0]
Ok(w, h) == [ok |-> TRUE, code |-> "success", msg |-> "", w |-> w, h |-> h]

Respond(res, op, n, r) == [res EXCEPT ![<<op, n>>] = Append(@, r)]

\* the calls issued so far that have no completion yet
Outstanding(ncalls, res) == {c \in CallIds : c[2] <= ncalls[c[1]] /\ res[c] = <<>>}

\* what the model remembers of the moment the first teardown began
NoDispose == [started |-> FALSE, calls |-> {}, init |-> 0]

AtDispose(ncalls, res, pending_init) ==
  [started |-> TRUE, calls |-> Outstanding(ncalls, res), init |-> pending_init]

(***************************************************************************)
(* GStreamer variant: state                                                *)
(***************************************************************************)
VARIABLES
  L_cfg,                     \* config_.target_width/height (caps of every pipeline)
  L_state_,                  \* std::atomic<CameraState> state_
  L_pending_init_call_,      \* 0 = nullptr, else the number of the Initialize call
  L_init_timeout_id_,        \* 0 or the id of the GLib timeout source
  L_timers,                  \* GLib timeout sources that are armed
  L_first_frame_received_,
  L_preview_paused_,
  L_image_streaming_,
  L_image_stream_callback_,  \* TRUE = a callback is registered
  L_actual,                  \* <<actual_width_, actual_height_>>
  L_pipeline_,               \* 0 = nullptr, else a pipeline id
  L_pipes,                   \* pipeline id -> "absent" | "playing" | "null" | "freed"
  L_bus_watch_id_,           \* 0 or the pipeline whose bus is watched
  L_watches,                 \* bus watches installed in the main loop
  L_texture_,                \* TRUE = texture_ registered and non-null
  L_stream,                  \* image_stream_buffer_ / image_stream_sequence_
  L_rec,                     \* RecordHandler
  L_main,                    \* the main-loop handler in progress
  L_spc,                     \* pipeline id -> streaming thread inside OnNewSample
  L_dpc,                     \* Dispose() caller -> position inside Dispose
  L_idle,                    \* g_idle_add sources, in order
  L_tasks,                   \* takePicture tasks in the thread pool
  L_results,                 \* call id -> completions delivered to it
  L_ncalls,                  \* op -> calls issued
  L_count,                   \* events so far (bounded), and what was emitted
  L_at_dispose,              \* what was outstanding when the first teardown began
  L_reply                    \* the last command the plugin answered camera_not_found

L_vars == <<L_cfg, L_state_, L_pending_init_call_, L_init_timeout_id_, L_timers,
            L_first_frame_received_, L_preview_paused_, L_image_streaming_,
            L_image_stream_callback_, L_actual, L_pipeline_, L_pipes,
            L_bus_watch_id_, L_watches, L_texture_, L_stream, L_rec, L_main,
            L_spc, L_dpc, L_idle, L_tasks, L_results, L_ncalls, L_count,
            L_at_dispose, L_reply>>

(***************************************************************************)
(* Media Foundation variant: state                                         *)
(***************************************************************************)
VARIABLES
  W_cfg,                     \* <<preview_width_, preview_height_>> the engine negotiates
  W_state_,                  \* CameraState state_ (under state_mutex_)
  W_pending_init_,           \* 0 = empty, else the number of the Initialize call
  W_pending_start_record_,   \* 0 = empty, else the number of the call
  W_pending_stop_record_,    \* 0 = empty, else the number of the call
  W_first_frame_received_,
  W_preview_paused_,
  W_image_streaming_,
  W_is_recording_,
  W_record_handler_,         \* "null" or the state of the RecordHandler
  W_capture_engine_,         \* 0 = null, else the attempt that created it
  W_engine,                  \* the engine: previewing, events it will raise
  W_init_timeout_cancelled_,
  W_init_timeout_thread_,    \* 0 = not joinable, else the attempt that started it
  W_latest_frame_,           \* TRUE = non-empty
  W_texture_,                \* TRUE = texture_ non-null
  W_ipc,                     \* attempt -> the detached thread of Initialize
  W_tpc,                     \* attempt -> the timeout thread
  W_spc,                     \* the MF thread inside OnPreviewSample
  W_epc,                     \* the MF thread inside OnEngineEvent
  W_dpc,                     \* the dispose thread inside DisposeInternal
  W_dispose_callbacks_,      \* callers whose on_done is queued
  W_tasks,                   \* takePicture threads
  W_results,                 \* call id -> completions delivered to it
  W_ncalls,                  \* op -> calls issued
  W_count,                   \* events so far (bounded), and what was emitted
  W_terminated,              \* std::terminate was called
  W_at_dispose,              \* what was outstanding when the teardown began
  W_image_stream_callback_,  \* TRUE = a callback is registered
  W_stream_handle,           \* TRUE = g_stream_handles holds a handle of the camera
  W_current_record_path_,    \* 0 = empty, else the startVideoRecording call that set it
  W_reply                    \* the last command the plugin answered camera_not_found

W_vars == <<W_cfg, W_state_, W_pending_init_, W_pending_start_record_,
            W_pending_stop_record_, W_first_frame_received_, W_preview_paused_,
            W_image_streaming_, W_is_recording_, W_record_handler_,
            W_capture_engine_, W_engine, W_init_timeout_cancelled_,
            W_init_timeout_thread_, W_latest_frame_, W_texture_, W_ipc, W_tpc,
            W_spc, W_epc, W_dpc, W_dispose_callbacks_, W_tasks, W_results,
            W_ncalls, W_count, W_terminated, W_at_dispose,
            W_image_stream_callback_, W_stream_handle,
            W_current_record_path_, W_reply>>

(***************************************************************************)
(* RecordHandler of the Media Foundation variant: state                    *)
(***************************************************************************)
VARIABLES
  R_supply,                  \* frames and samples still to arrive, calls to be made
  R_is_recording_,
  R_accepting_queue_items_,
  R_writer_running_,
  R_audio_running_,
  R_queue_,                  \* sequence of [kind, presentation_time_100ns]
  R_video_queue_size_,
  R_audio_queue_size_,
  R_video_frame_counter_,
  R_output_path_,            \* 0 = empty, else the Start call that set it
  R_writer_,                 \* "null", "open" or "finalized"
  R_writer_thread_,          \* TRUE = joinable
  R_audio_thread_,           \* TRUE = joinable
  R_stop_thread_,            \* TRUE = joinable
  R_cpc,                     \* the caller of Start and Stop
  R_ppc,                     \* the producer inside AppendFrame
  R_wpc,                     \* the thread running WriterLoop
  R_apc,                     \* the thread running AudioLoop
  R_fpc,                     \* the finalizer started by Stop
  R_ncalls,                  \* [start, stop]: calls so far
  R_hist,                    \* what happened to each recording
  R_terminated               \* std::terminate was called

R_vars == <<R_supply, R_is_recording_, R_accepting_queue_items_,
            R_writer_running_, R_audio_running_, R_queue_,
            R_video_queue_size_, R_audio_queue_size_, R_video_frame_counter_,
            R_output_path_, R_writer_, R_writer_thread_, R_audio_thread_,
            R_stop_thread_, R_cpc, R_ppc, R_wpc, R_apc, R_fpc, R_ncalls,
            R_hist, R_terminated>>

\* the texture ring: buffers[3] and the indices, the producer's position in
\* Update, what the consumer was handed last, and the calls made
VARIABLES
  T_buffers, T_write_idx, T_read_idx, T_ready_idx, T_has_new_frame,
  T_width, T_height, T_buffer_size, T_upc, T_held, T_count

T_vars == <<T_buffers, T_write_idx, T_read_idx, T_ready_idx, T_has_new_frame,
            T_width, T_height, T_buffer_size, T_upc, T_held, T_count>>

\* the threads of the Windows image stream: the flags, whether
\* image_stream_thread_ and image_stream_join_thread_ are joinable, where the
\* threads they hold are, the ImageStreamLoop threads alive, the calls made
VARIABLES
  S_image_streaming_, S_image_stream_running_, S_image_stream_thread_,
  S_image_stream_join_thread_, S_lpc, S_jpc, S_live, S_last, S_prev, S_count

S_vars == <<S_image_streaming_, S_image_stream_running_, S_image_stream_thread_,
            S_image_stream_join_thread_, S_lpc, S_jpc, S_live, S_last, S_prev,
            S_count>>

\* the teardown against the producer: the session state, what Dispose has to
\* stop and release, the shared stream block, the holder of
\* image_stream_ffi_mutex_, where Dispose and the frame callback are, and
\* what happened
VARIABLES
  D_state_, D_pending, D_recording, D_producer, D_image_streaming_,
  D_image_stream_callback_, D_buffer, D_image_stream_sequence_, D_texture_,
  D_ffi_mutex, D_dpc, D_spc, D_hist

D_vars == <<D_state_, D_pending, D_recording, D_producer, D_image_streaming_,
            D_image_stream_callback_, D_buffer, D_image_stream_sequence_,
            D_texture_, D_ffi_mutex, D_dpc, D_spc, D_hist>>

\* the recording branch of the GStreamer pipeline behind the tee: the fill
\* of rec_queue, where the streaming thread that feeds the tee is, and the
\* frames it took from the source and passed to the preview branch; where
\* StopRecording is, whether the recording has audio, and what StopRecording
\* did to the branches so far
VARIABLES Q_level, Q_tpc, Q_count, Q_stop

Q_vars == <<Q_level, Q_tpc, Q_count, Q_stop>>

\* the two loops that wait on a condition variable, "stream"
\* (ImageStreamLoop on image_stream_cv_) and "writer" (WriterLoop on
\* queue_cv_): the flag of the stop predicate, the work waiting, where the
\* loop is, where the caller that stops it is, the work posted
VARIABLES V_loop

V_vars == <<V_loop>>

VARIABLE platform            \* which variant is built: "linux" or "windows"

vars == <<platform, L_vars, W_vars, R_vars, T_vars, S_vars, D_vars, Q_vars, V_vars>>

PipeIds == 1..MaxInit

DisposeCallers == {"main", "other"}

L_SIdle == [pc |-> "idle", is_first |-> FALSE, tex |-> FALSE, streamed |-> FALSE,
            paused |-> FALSE, rec |-> FALSE]

L_MIdle == [pc |-> "idle", call |-> 0]

L_DIdle == [pc |-> "idle"]

L_Init ==
  /\ L_cfg \in FrameDims
  /\ L_state_ = "Created"
  /\ L_pending_init_call_ = 0
  /\ L_init_timeout_id_ = 0
  /\ L_timers = {}
  /\ L_first_frame_received_ = FALSE
  /\ L_preview_paused_ = FALSE
  /\ L_image_streaming_ = FALSE
  /\ L_image_stream_callback_ = FALSE
  /\ L_actual = <<0, 0>>
  /\ L_pipeline_ = 0
  /\ L_pipes = [p \in PipeIds |-> "absent"]
  /\ L_bus_watch_id_ = 0
  /\ L_watches = {}
  /\ L_texture_ = TRUE
  /\ L_stream = [buffer |-> FALSE, ready |-> 0, sequence |-> 0, frees |-> 0]
  /\ L_rec = [is_recording_ |-> FALSE, is_setup_ |-> FALSE, drop |-> TRUE,
              output_path_ |-> 0,
              pipe |-> 0, probes |-> {}, eos |-> 0]
  /\ L_main = L_MIdle
  /\ L_spc = [p \in PipeIds |-> L_SIdle]
  /\ L_dpc = [d \in DisposeCallers |-> L_DIdle]
  /\ L_idle = <<>>
  /\ L_tasks = {}
  /\ L_results = [c \in CallIds |-> <<>>]
  /\ L_ncalls = [op \in Ops |-> 0]
  /\ L_count = [frames |-> 0, errors |-> 0,
                dispose |-> [d \in DisposeCallers |-> 0],
                teardowns |-> 0, closing |-> 0, cameraError |-> 0,
                pipe_unrefs |-> 0, tex_unregs |-> 0, actual |-> 0]
  /\ L_at_dispose = NoDispose
  /\ L_reply = "none"

\* The GLib main loop runs one handler at a time; Dispose() called from the
\* main loop (handle_dispose) is such a handler.
L_MainFree == L_main.pc = "idle" /\ L_dpc["main"].pc = "idle"


(***************************************************************************)
(* GStreamer variant: Initialize and its three ways to complete            *)
(***************************************************************************)

\* Camera::RespondToPendingInit, called with pending_init_call_ = call,
\* init_timeout_id_ = tid and the armed timeout sources `timers`.
L_RespondToPendingInit(call, tid, timers, success, error_message) ==
  IF call = 0
  THEN /\ L_pending_init_call_' = 0
       /\ L_init_timeout_id_' = tid
       /\ L_timers' = timers
       /\ L_results' = L_results
  ELSE /\ L_timers' = IF tid > 0 THEN timers \ {tid} ELSE timers
       /\ L_init_timeout_id_' = 0
       /\ L_results' = Respond(L_results, "initialize", call,
                               IF success THEN Ok(L_actual[1], L_actual[2])
                               ELSE Err("initialization_failed", error_message))
       /\ L_pending_init_call_' = 0

\* Initialize with a check that rejects only a session that is Initializing
L_Initialize_check_lax ==
  /\ platform = "linux"
  /\ L_MainFree
  /\ L_ncalls["initialize"] < MaxInit
  /\ LET n == L_ncalls["initialize"] + 1 IN
     /\ L_ncalls' = [L_ncalls EXCEPT !["initialize"] = n]
     /\ IF L_state_ = "Initializing"
        THEN /\ L_results' = Respond(L_results, "initialize", n,
                                     Err("already_initialized",
                                         "Camera is already initialized or disposed"))
             /\ L_main' = L_main
        ELSE /\ L_results' = L_results
             /\ L_main' = [pc |-> "init_store", call |-> n]
  /\ UNCHANGED <<L_cfg, L_state_, L_pending_init_call_, L_init_timeout_id_, L_timers,
                 L_first_frame_received_, L_preview_paused_, L_image_streaming_,
                 L_image_stream_callback_, L_actual, L_pipeline_, L_pipes,
                 L_bus_watch_id_, L_watches, L_texture_, L_stream, L_rec, L_spc,
                 L_dpc, L_idle, L_tasks, L_count, L_at_dispose, L_reply, W_vars,
                 R_vars, T_vars, S_vars, D_vars, Q_vars, V_vars, platform>>

\* Camera::Initialize, the state check
L_Initialize_check ==
  /\ platform = "linux"
  /\ L_MainFree
  /\ L_ncalls["initialize"] < MaxInit
  /\ LET n == L_ncalls["initialize"] + 1 IN
     /\ L_ncalls' = [L_ncalls EXCEPT !["initialize"] = n]
     /\ IF L_state_ # "Created"
        THEN /\ L_results' = Respond(L_results, "initialize", n,
                                     Err("already_initialized",
                                         "Camera is already initialized or disposed"))
             /\ L_main' = L_main
        ELSE /\ L_results' = L_results
             /\ L_main' = [pc |-> "init_store", call |-> n]
  /\ UNCHANGED <<L_cfg, L_state_, L_pending_init_call_, L_init_timeout_id_, L_timers,
                 L_first_frame_received_, L_preview_paused_, L_image_streaming_,
                 L_image_stream_callback_, L_actual, L_pipeline_, L_pipes,
                 L_bus_watch_id_, L_watches, L_texture_, L_stream, L_rec, L_spc,
                 L_dpc, L_idle, L_tasks, L_count, L_at_dispose, L_reply, W_vars,
                 R_vars, T_vars, S_vars, D_vars, Q_vars, V_vars, platform>>

\* state_.store(kInitializing)
L_Initialize_store ==
  /\ platform = "linux"
  /\ L_main.pc = "init_store"
  /\ L_state_' = "Initializing"
  /\ L_main' = [L_main EXCEPT !.pc = "init_build"]
  /\ UNCHANGED <<L_cfg, L_pending_init_call_, L_init_timeout_id_, L_timers,
                 L_first_frame_received_, L_preview_paused_, L_image_streaming_,
                 L_image_stream_callback_, L_actual, L_pipeline_, L_pipes,
                 L_bus_watch_id_, L_watches, L_texture_, L_stream, L_rec, L_spc,
                 L_dpc, L_idle, L_tasks, L_results, L_ncalls, L_count, L_at_dispose,
                 L_reply, W_vars, R_vars, T_vars, S_vars, D_vars, Q_vars, V_vars,
                 platform>>

\* pending_init_call_ = call; first_frame_received_ = false; BuildPipeline;
\* set_state(PLAYING); g_timeout_add.  The pipeline and the timeout source of
\* the n-th Initialize call get the id n.
L_Initialize_build ==
  /\ platform = "linux"
  /\ L_main.pc = "init_build"
  /\ L_first_frame_received_' = FALSE
  /\ LET n == L_main.call IN
     \E outcome \in {"build_failed", "start_failed", "playing"} :
       CASE outcome = "build_failed" ->
              /\ L_RespondToPendingInit(n, L_init_timeout_id_, L_timers, FALSE, "build")
              /\ L_pipeline_' = 0
              /\ L_main' = [L_main EXCEPT !.pc = "init_failed"]
              /\ UNCHANGED <<L_pipes, L_bus_watch_id_, L_watches>>
         [] outcome = "start_failed" ->
              /\ L_RespondToPendingInit(n, L_init_timeout_id_, L_timers, FALSE, "start")
              /\ L_pipes' = [L_pipes EXCEPT ![n] = "freed"]
              /\ L_pipeline_' = 0
              /\ L_bus_watch_id_' = n
              /\ L_watches' = L_watches \cup {n}
              /\ L_main' = [L_main EXCEPT !.pc = "init_failed"]
         [] outcome = "playing" ->
              /\ L_pipes' = [L_pipes EXCEPT ![n] = "playing"]
              /\ L_pipeline_' = n
              /\ L_bus_watch_id_' = n
              /\ L_watches' = L_watches \cup {n}
              /\ L_pending_init_call_' = n
              /\ L_init_timeout_id_' = n
              /\ L_timers' = L_timers \cup {n}
              /\ L_results' = L_results
              /\ L_main' = L_MIdle
  /\ UNCHANGED <<L_cfg, L_state_, L_preview_paused_, L_image_streaming_,
                 L_image_stream_callback_, L_actual, L_texture_, L_stream, L_rec,
                 L_spc, L_dpc, L_idle, L_tasks, L_ncalls, L_count, L_at_dispose,
                 L_reply, W_vars, R_vars, T_vars, S_vars, D_vars, Q_vars, V_vars,
                 platform>>

\* state_.store(kCreated) after a build or start failure
L_Initialize_failed ==
  /\ platform = "linux"
  /\ L_main.pc = "init_failed"
  /\ L_state_' = "Created"
  /\ L_main' = L_MIdle
  /\ UNCHANGED <<L_cfg, L_pending_init_call_, L_init_timeout_id_, L_timers,
                 L_first_frame_received_, L_preview_paused_, L_image_streaming_,
                 L_image_stream_callback_, L_actual, L_pipeline_, L_pipes,
                 L_bus_watch_id_, L_watches, L_texture_, L_stream, L_rec, L_spc,
                 L_dpc, L_idle, L_tasks, L_results, L_ncalls, L_count, L_at_dispose,
                 L_reply, W_vars, R_vars, T_vars, S_vars, D_vars, Q_vars, V_vars,
                 platform>>

\* Camera::OnInitTimeout, up to the response
L_OnInitTimeout(t) ==
  /\ platform = "linux"
  /\ L_MainFree
  /\ t \in L_timers
  /\ IF L_state_ = "Initializing"
     THEN /\ L_RespondToPendingInit(L_pending_init_call_, 0, L_timers \ {t}, FALSE, "timeout")
          /\ L_main' = [pc |-> "timeout_stop", call |-> 0]
     ELSE /\ L_init_timeout_id_' = 0
          /\ L_timers' = L_timers \ {t}
          /\ UNCHANGED <<L_pending_init_call_, L_results, L_main>>
  /\ UNCHANGED <<L_cfg, L_state_, L_first_frame_received_, L_preview_paused_,
                 L_image_streaming_, L_image_stream_callback_, L_actual, L_pipeline_,
                 L_pipes, L_bus_watch_id_, L_watches, L_texture_, L_stream, L_rec,
                 L_spc, L_dpc, L_idle, L_tasks, L_ncalls, L_count, L_at_dispose,
                 L_reply, W_vars, R_vars, T_vars, S_vars, D_vars, Q_vars, V_vars,
                 platform>>

\* gst_element_set_state(pipeline_, NULL), which returns once the streaming
\* thread of that pipeline has left OnNewSample; state_.store(kCreated)
L_OnInitTimeout_stop ==
  /\ platform = "linux"
  /\ L_main.pc = "timeout_stop"
  /\ L_pipeline_ # 0 => L_spc[L_pipeline_].pc = "idle"
  /\ L_pipes' = IF L_pipeline_ # 0 THEN [L_pipes EXCEPT ![L_pipeline_] = "null"] ELSE L_pipes
  /\ L_state_' = "Created"
  /\ L_main' = L_MIdle
  /\ UNCHANGED <<L_cfg, L_pending_init_call_, L_init_timeout_id_, L_timers,
                 L_first_frame_received_, L_preview_paused_, L_image_streaming_,
                 L_image_stream_callback_, L_actual, L_pipeline_, L_bus_watch_id_,
                 L_watches, L_texture_, L_stream, L_rec, L_spc, L_dpc, L_idle,
                 L_tasks, L_results, L_ncalls, L_count, L_at_dispose, L_reply, W_vars,
                 R_vars, T_vars, S_vars, D_vars, Q_vars, V_vars, platform>>

\* Camera::OnBusMessage, GST_MESSAGE_ERROR, up to the response
L_OnBusMessage_error(p) ==
  /\ platform = "linux"
  /\ L_MainFree
  /\ p \in L_watches
  /\ L_pipes[p] = "playing"
  /\ L_count.errors < MaxErrors
  /\ CASE L_state_ = "Initializing" ->
            /\ L_RespondToPendingInit(L_pending_init_call_, L_init_timeout_id_, L_timers, FALSE, "error")
            /\ L_main' = [pc |-> "error_store", call |-> 0]
            /\ L_count' = [L_count EXCEPT !.errors = @ + 1]
       [] L_state_ \in {"Running", "Paused"} ->
            /\ L_count' = [L_count EXCEPT !.errors = @ + 1, !.cameraError = @ + 1]
            /\ UNCHANGED <<L_pending_init_call_, L_init_timeout_id_, L_timers, L_results, L_main>>
       [] OTHER ->
            /\ L_count' = [L_count EXCEPT !.errors = @ + 1]
            /\ UNCHANGED <<L_pending_init_call_, L_init_timeout_id_, L_timers, L_results, L_main>>
  /\ UNCHANGED <<L_cfg, L_state_, L_first_frame_received_, L_preview_paused_,
                 L_image_streaming_, L_image_stream_callback_, L_actual, L_pipeline_,
                 L_pipes, L_bus_watch_id_, L_watches, L_texture_, L_stream, L_rec,
                 L_spc, L_dpc, L_idle, L_tasks, L_ncalls, L_at_dispose, L_reply,
                 W_vars, R_vars, T_vars, S_vars, D_vars, Q_vars, V_vars, platform>>

\* state_.store(kCreated) of the error handler
L_OnBusMessage_error_store ==
  /\ platform = "linux"
  /\ L_main.pc = "error_store"
  /\ L_state_' = "Created"
  /\ L_main' = L_MIdle
  /\ UNCHANGED <<L_cfg, L_pending_init_call_, L_init_timeout_id_, L_timers,
                 L_first_frame_received_, L_preview_paused_, L_image_streaming_,
                 L_image_stream_callback_, L_actual, L_pipeline_, L_pipes,
                 L_bus_watch_id_, L_watches, L_texture_, L_stream, L_rec, L_spc,
                 L_dpc, L_idle, L_tasks, L_results, L_ncalls, L_count, L_at_dispose,
                 L_reply, W_vars, R_vars, T_vars, S_vars, D_vars, Q_vars, V_vars,
                 platform>>

\* Camera::OnBusMessage, GST_MESSAGE_EOS
L_OnBusMessage_eos(p) ==
  /\ platform = "linux"
  /\ L_MainFree
  /\ p \in L_watches
  /\ L_pipes[p] = "playing"
  /\ L_count.errors < MaxErrors
  /\ L_count' = [L_count EXCEPT !.errors = @ + 1,
                                !.cameraError = IF L_state_ \in {"Running", "Paused"}
                                                THEN @ + 1 ELSE @]
  /\ UNCHANGED <<L_cfg, L_state_, L_pending_init_call_, L_init_timeout_id_, L_timers,
                 L_first_frame_received_, L_preview_paused_, L_image_streaming_,
                 L_image_stream_callback_, L_actual, L_pipeline_, L_pipes,
                 L_bus_watch_id_, L_watches, L_texture_, L_stream, L_rec, L_main,
                 L_spc, L_dpc, L_idle, L_tasks, L_results, L_ncalls, L_at_dispose,
                 L_reply, W_vars, R_vars, T_vars, S_vars, D_vars, Q_vars, V_vars,
                 platform>>

(***************************************************************************)
(* GStreamer variant: Camera::OnNewSample on the streaming thread of       *)
(* pipeline p                                                              *)
(***************************************************************************)

\* a sample is pulled and mapped (the tee hands the same frame to the
\* recording branch, whose valve passes it unless drop = TRUE);
\* bool is_first_frame = !first_frame_received_.load()
L_OnNewSample_pull(p) ==
  /\ platform = "linux"
  /\ L_pipes[p] = "playing"
  /\ L_spc[p].pc = "idle"
  /\ L_count.frames < MaxFrames
  /\ L_count' = [L_count EXCEPT !.frames = @ + 1]
  /\ L_spc' = [L_spc EXCEPT ![p] =
                 [L_SIdle EXCEPT !.pc = IF L_first_frame_received_ THEN "texture"
                                        ELSE "store",
                                 !.is_first = ~L_first_frame_received_,
                                 !.rec = L_rec.is_setup_ /\ L_rec.pipe = p /\ ~L_rec.drop]]
  /\ UNCHANGED <<L_cfg, L_state_, L_pending_init_call_, L_init_timeout_id_, L_timers,
                 L_first_frame_received_, L_preview_paused_, L_image_streaming_,
                 L_image_stream_callback_, L_actual, L_pipeline_, L_pipes,
                 L_bus_watch_id_, L_watches, L_texture_, L_stream, L_rec, L_main,
                 L_dpc, L_idle, L_tasks, L_results, L_ncalls, L_at_dispose, L_reply,
                 W_vars, R_vars, T_vars, S_vars, D_vars, Q_vars, V_vars, platform>>

\* first_frame_received_.store(true); actual_width_/height_.store;
\* state_.store(CameraState::kRunning)
L_OnNewSample_store(p) ==
  /\ platform = "linux"
  /\ L_spc[p].pc = "store"
  /\ L_first_frame_received_' = TRUE
  /\ L_actual' = L_cfg
  /\ L_count' = [L_count EXCEPT !.actual = @ + 1]
  /\ L_state_' = "Running"
  /\ L_spc' = [L_spc EXCEPT ![p].pc = "texture"]
  /\ UNCHANGED <<L_cfg, L_pending_init_call_, L_init_timeout_id_, L_timers,
                 L_preview_paused_, L_image_streaming_, L_image_stream_callback_,
                 L_pipeline_, L_pipes, L_bus_watch_id_, L_watches, L_texture_,
                 L_stream, L_rec, L_main, L_dpc, L_idle, L_tasks, L_results, L_ncalls,
                 L_at_dispose, L_reply, W_vars, R_vars, T_vars, S_vars, D_vars,
                 Q_vars, V_vars, platform>>

\* the texture update without the preview_paused_ test
L_OnNewSample_texture_unpaused(p) ==
  /\ platform = "linux"
  /\ L_spc[p].pc = "texture"
  /\ L_spc' = [L_spc EXCEPT ![p].pc = "stream",
                            ![p].paused = L_preview_paused_,
                            ![p].tex = TRUE]
  /\ UNCHANGED <<L_cfg, L_state_, L_pending_init_call_, L_init_timeout_id_, L_timers,
                 L_first_frame_received_, L_preview_paused_, L_image_streaming_,
                 L_image_stream_callback_, L_actual, L_pipeline_, L_pipes,
                 L_bus_watch_id_, L_watches, L_texture_, L_stream, L_rec, L_main,
                 L_dpc, L_idle, L_tasks, L_results, L_ncalls, L_count, L_at_dispose,
                 L_reply, W_vars, R_vars, T_vars, S_vars, D_vars, Q_vars, V_vars,
                 platform>>

\* camera_texture_update + mark_texture_frame_available, unless paused
L_OnNewSample_texture(p) ==
  /\ platform = "linux"
  /\ L_spc[p].pc = "texture"
  /\ L_spc' = [L_spc EXCEPT ![p].pc = "stream",
                            ![p].paused = L_preview_paused_,
                            ![p].tex = ~L_preview_paused_ \/ L_spc[p].is_first]
  /\ UNCHANGED <<L_cfg, L_state_, L_pending_init_call_, L_init_timeout_id_, L_timers,
                 L_first_frame_received_, L_preview_paused_, L_image_streaming_,
                 L_image_stream_callback_, L_actual, L_pipeline_, L_pipes,
                 L_bus_watch_id_, L_watches, L_texture_, L_stream, L_rec, L_main,
                 L_dpc, L_idle, L_tasks, L_results, L_ncalls, L_count, L_at_dispose,
                 L_reply, W_vars, R_vars, T_vars, S_vars, D_vars, Q_vars, V_vars,
                 platform>>

\* the image stream (the shared buffer and the callback, or an idle source
\* that invokes imageStreamFrame), then g_idle_add of
\* RespondToPendingInit(true, nullptr) after the first frame
L_OnNewSample_stream(p) ==
  /\ platform = "linux"
  /\ L_spc[p].pc = "stream"
  /\ LET legacy == IF L_image_streaming_ /\ ~L_image_stream_callback_
                   THEN <<[kind |-> "imageStreamFrame", call |-> 0, ok |-> TRUE]>>
                   ELSE <<>>
         init_ok == IF L_spc[p].is_first
                    THEN <<[kind |-> "init_ok", call |-> 0, ok |-> TRUE]>>
                    ELSE <<>>
     IN  L_idle' = L_idle \o legacy \o init_ok
  /\ L_stream' = IF L_image_streaming_ /\ L_image_stream_callback_
                 THEN [L_stream EXCEPT !.buffer = TRUE, !.ready = 1, !.sequence = @ + 1]
                 ELSE L_stream
  /\ L_spc' = [L_spc EXCEPT ![p].pc = "idle", ![p].streamed = L_image_streaming_]
  /\ UNCHANGED <<L_cfg, L_state_, L_pending_init_call_, L_init_timeout_id_, L_timers,
                 L_first_frame_received_, L_preview_paused_, L_image_streaming_,
                 L_image_stream_callback_, L_actual, L_pipeline_, L_pipes,
                 L_bus_watch_id_, L_watches, L_texture_, L_rec, L_main, L_dpc,
                 L_tasks, L_results, L_ncalls, L_count, L_at_dispose, L_reply, W_vars,
                 R_vars, T_vars, S_vars, D_vars, Q_vars, V_vars, platform>>

(***************************************************************************)
(* GStreamer variant: idle sources dispatched by the main loop             *)
(***************************************************************************)
L_IdleDispatch ==
  /\ platform = "linux"
  /\ L_MainFree
  /\ L_idle # <<>>
  /\ L_idle' = Tail(L_idle)
  /\ LET src == Head(L_idle) IN
     CASE src.kind = "init_ok" ->
            /\ L_RespondToPendingInit(L_pending_init_call_, L_init_timeout_id_, L_timers, TRUE, "")
            /\ UNCHANGED <<L_rec>>
       [] src.kind = "photo" ->
            /\ L_results' = Respond(L_results, "takePicture", src.call,
                                    IF src.ok THEN Ok(0, 0)
                                    ELSE Err("capture_failed", "Failed to capture image"))
            /\ UNCHANGED <<L_pending_init_call_, L_init_timeout_id_, L_timers, L_rec>>
       [] src.kind = "stop_done" ->
            /\ L_results' = Respond(L_results, "stopVideoRecording", src.call, Ok(0, 0))
            /\ L_rec' = [L_rec EXCEPT !.is_recording_ = FALSE]
            /\ UNCHANGED <<L_pending_init_call_, L_init_timeout_id_, L_timers>>
       [] src.kind = "imageStreamFrame" ->
            UNCHANGED <<L_pending_init_call_, L_init_timeout_id_, L_timers, L_results, L_rec>>
  /\ UNCHANGED <<L_cfg, L_state_, L_first_frame_received_, L_preview_paused_,
                 L_image_streaming_, L_image_stream_callback_, L_actual, L_pipeline_,
                 L_pipes, L_bus_watch_id_, L_watches, L_texture_, L_stream, L_main,
                 L_spc, L_dpc, L_tasks, L_ncalls, L_count, L_at_dispose, L_reply,
                 W_vars, R_vars, T_vars, S_vars, D_vars, Q_vars, V_vars, platform>>

(***************************************************************************)
(* GStreamer variant: Camera::Dispose, called by d                         *)
(***************************************************************************)

\* CameraState prev = state_.exchange(kDisposing) and the early return
L_Dispose_exchange(d) ==
  /\ platform = "linux"
  /\ d = "main" => L_MainFree
  /\ L_dpc[d].pc = "idle"
  /\ L_count.dispose[d] < MaxDispose
  /\ L_state_' = "Disposing"
  /\ IF L_state_ \in {"Disposed", "Disposing"}
     THEN /\ L_dpc' = L_dpc
          /\ L_count' = [L_count EXCEPT !.dispose[d] = @ + 1]
     ELSE /\ L_dpc' = [L_dpc EXCEPT ![d].pc = "pending"]
          /\ L_count' = [L_count EXCEPT !.dispose[d] = @ + 1, !.teardowns = @ + 1]
  /\ L_at_dispose' = IF L_state_ \in {"Disposed", "Disposing"} \/ L_at_dispose.started
                     THEN L_at_dispose
                     ELSE AtDispose(L_ncalls, L_results, L_pending_init_call_)
  /\ UNCHANGED <<L_cfg, L_pending_init_call_, L_init_timeout_id_, L_timers,
                 L_first_frame_received_, L_preview_paused_, L_image_streaming_,
                 L_image_stream_callback_, L_actual, L_pipeline_, L_pipes,
                 L_bus_watch_id_, L_watches, L_texture_, L_stream, L_rec, L_main,
                 L_spc, L_idle, L_tasks, L_results, L_ncalls, L_reply, W_vars, R_vars,
                 T_vars, S_vars, D_vars, Q_vars, V_vars, platform>>

\* cancel the pending init; image_stream_callback_.store(nullptr)
L_Dispose_pending(d) ==
  /\ platform = "linux"
  /\ L_dpc[d].pc = "pending"
  /\ IF L_pending_init_call_ # 0
     THEN L_RespondToPendingInit(L_pending_init_call_, L_init_timeout_id_, L_timers, FALSE, "disposed")
     ELSE UNCHANGED <<L_pending_init_call_, L_init_timeout_id_, L_timers, L_results>>
  /\ L_image_stream_callback_' = FALSE
  /\ L_dpc' = [L_dpc EXCEPT ![d].pc = "pipeline"]
  /\ UNCHANGED <<L_cfg, L_state_, L_first_frame_received_, L_preview_paused_,
                 L_image_streaming_, L_actual, L_pipeline_, L_pipes, L_bus_watch_id_,
                 L_watches, L_texture_, L_stream, L_rec, L_main, L_spc, L_idle,
                 L_tasks, L_ncalls, L_count, L_at_dispose, L_reply, W_vars, R_vars,
                 T_vars, S_vars, D_vars, Q_vars, V_vars, platform>>

\* stop the pipeline (waits for its streaming thread), remove the bus watch,
\* unref the pipeline
L_Dispose_pipeline(d) ==
  /\ platform = "linux"
  /\ L_dpc[d].pc = "pipeline"
  /\ L_pipeline_ # 0 => L_spc[L_pipeline_].pc = "idle"
  /\ IF L_pipeline_ # 0
     THEN /\ L_pipes' = [L_pipes EXCEPT ![L_pipeline_] = "freed"]
          /\ L_watches' = L_watches \ {L_bus_watch_id_}
          /\ L_bus_watch_id_' = 0
          /\ L_pipeline_' = 0
          /\ L_count' = [L_count EXCEPT !.pipe_unrefs = @ + 1]
     ELSE UNCHANGED <<L_pipes, L_watches, L_bus_watch_id_, L_pipeline_, L_count>>
  /\ L_dpc' = [L_dpc EXCEPT ![d].pc = "release"]
  /\ UNCHANGED <<L_cfg, L_state_, L_pending_init_call_, L_init_timeout_id_, L_timers,
                 L_first_frame_received_, L_preview_paused_, L_image_streaming_,
                 L_image_stream_callback_, L_actual, L_texture_, L_stream, L_rec,
                 L_main, L_spc, L_idle, L_tasks, L_results, L_ncalls, L_at_dispose,
                 L_reply, W_vars, R_vars, T_vars, S_vars, D_vars, Q_vars, V_vars,
                 platform>>

\* free image_stream_buffer_; unregister and unref the texture; invoke
\* cameraClosing
L_Dispose_release(d) ==
  /\ platform = "linux"
  /\ L_dpc[d].pc = "release"
  /\ L_stream' = IF L_stream.buffer
                 THEN [L_stream EXCEPT !.buffer = FALSE, !.frees = @ + 1]
                 ELSE L_stream
  /\ L_texture_' = FALSE
  /\ L_count' = [L_count EXCEPT !.closing = @ + 1,
                                !.tex_unregs = IF L_texture_ THEN @ + 1 ELSE @]
  /\ L_dpc' = [L_dpc EXCEPT ![d].pc = "store"]
  /\ UNCHANGED <<L_cfg, L_state_, L_pending_init_call_, L_init_timeout_id_, L_timers,
                 L_first_frame_received_, L_preview_paused_, L_image_streaming_,
                 L_image_stream_callback_, L_actual, L_pipeline_, L_pipes,
                 L_bus_watch_id_, L_watches, L_rec, L_main, L_spc, L_idle, L_tasks,
                 L_results, L_ncalls, L_at_dispose, L_reply, W_vars, R_vars, T_vars,
                 S_vars, D_vars, Q_vars, V_vars, platform>>

\* state_.store(CameraState::kDisposed)
L_Dispose_store(d) ==
  /\ platform = "linux"
  /\ L_dpc[d].pc = "store"
  /\ L_state_' = "Disposed"
  /\ L_dpc' = [L_dpc EXCEPT ![d].pc = "idle"]
  /\ UNCHANGED <<L_cfg, L_pending_init_call_, L_init_timeout_id_, L_timers,
                 L_first_frame_received_, L_preview_paused_, L_image_streaming_,
                 L_image_stream_callback_, L_actual, L_pipeline_, L_pipes,
                 L_bus_watch_id_, L_watches, L_texture_, L_stream, L_rec, L_main,
                 L_spc, L_idle, L_tasks, L_results, L_ncalls, L_count, L_at_dispose,
                 L_reply, W_vars, R_vars, T_vars, S_vars, D_vars, Q_vars, V_vars,
                 platform>>

(***************************************************************************)
(* GStreamer variant: commands handled on the main loop                    *)
(***************************************************************************)
L_NotRunning == Err("not_running", "Camera is not running")

\* TakePicture with a check that lets a session in Initializing through
L_TakePicture_lax ==
  /\ platform = "linux"
  /\ L_MainFree
  /\ L_ncalls["takePicture"] < MaxCmd
  /\ LET n == L_ncalls["takePicture"] + 1 IN
     /\ L_ncalls' = [L_ncalls EXCEPT !["takePicture"] = n]
     /\ IF L_state_ \in {"Created", "Disposing", "Disposed"}
        THEN /\ L_results' = Respond(L_results, "takePicture", n, L_NotRunning)
             /\ L_tasks' = L_tasks
        ELSE /\ L_results' = L_results
             /\ L_tasks' = L_tasks \cup {n}
  /\ UNCHANGED <<L_cfg, L_state_, L_pending_init_call_, L_init_timeout_id_, L_timers,
                 L_first_frame_received_, L_preview_paused_, L_image_streaming_,
                 L_image_stream_callback_, L_actual, L_pipeline_, L_pipes,
                 L_bus_watch_id_, L_watches, L_texture_, L_stream, L_rec, L_main,
                 L_spc, L_dpc, L_idle, L_count, L_at_dispose, L_reply, W_vars, R_vars,
                 T_vars, S_vars, D_vars, Q_vars, V_vars, platform>>

\* Camera::TakePicture
L_TakePicture ==
  /\ platform = "linux"
  /\ L_MainFree
  /\ L_ncalls["takePicture"] < MaxCmd
  /\ LET n == L_ncalls["takePicture"] + 1 IN
     /\ L_ncalls' = [L_ncalls EXCEPT !["takePicture"] = n]
     /\ IF L_state_ \notin {"Running", "Paused"}
        THEN /\ L_results' = Respond(L_results, "takePicture", n, L_NotRunning)
             /\ L_tasks' = L_tasks
        ELSE /\ L_results' = L_results
             /\ L_tasks' = L_tasks \cup {n}
  /\ UNCHANGED <<L_cfg, L_state_, L_pending_init_call_, L_init_timeout_id_, L_timers,
                 L_first_frame_received_, L_preview_paused_, L_image_streaming_,
                 L_image_stream_callback_, L_actual, L_pipeline_, L_pipes,
                 L_bus_watch_id_, L_watches, L_texture_, L_stream, L_rec, L_main,
                 L_spc, L_dpc, L_idle, L_count, L_at_dispose, L_reply, W_vars, R_vars,
                 T_vars, S_vars, D_vars, Q_vars, V_vars, platform>>

\* the thread-pool task of TakePicture: PhotoHandler::TakePicture, then the
\* response is marshalled to the main loop
L_TakePictureTask(n) ==
  /\ platform = "linux"
  /\ n \in L_tasks
  /\ L_tasks' = L_tasks \ {n}
  /\ \E ok \in BOOLEAN :
       L_idle' = Append(L_idle, [kind |-> "photo", call |-> n, ok |-> ok])
  /\ UNCHANGED <<L_cfg, L_state_, L_pending_init_call_, L_init_timeout_id_, L_timers,
                 L_first_frame_received_, L_preview_paused_, L_image_streaming_,
                 L_image_stream_callback_, L_actual, L_pipeline_, L_pipes,
                 L_bus_watch_id_, L_watches, L_texture_, L_stream, L_rec, L_main,
                 L_spc, L_dpc, L_results, L_ncalls, L_count, L_at_dispose, L_reply,
                 W_vars, R_vars, T_vars, S_vars, D_vars, Q_vars, V_vars, platform>>

\* RecordHandler::StartRecording while is_recording_: "Recording is already in
\* progress", which Camera::StartVideoRecording reports as recording_start_failed
L_AlreadyRecording == Err("recording_start_failed", "Recording is already in progress")

\* StartVideoRecording with a StartRecording that does not look at is_recording_
L_StartVideoRecording_lax(max) ==
  /\ platform = "linux"
  /\ L_MainFree
  /\ L_ncalls["startVideoRecording"] < max
  /\ LET n == L_ncalls["startVideoRecording"] + 1 IN
     /\ L_ncalls' = [L_ncalls EXCEPT !["startVideoRecording"] = n]
     /\ IF L_state_ \notin {"Running", "Paused"}
        THEN /\ L_results' = Respond(L_results, "startVideoRecording", n, L_NotRunning)
             /\ L_rec' = L_rec
        ELSE \E setup_ok \in BOOLEAN :
               LET setup == IF L_rec.is_setup_ \/ ~setup_ok THEN L_rec
                            ELSE [L_rec EXCEPT !.is_setup_ = TRUE, !.drop = TRUE,
                                               !.pipe = L_pipeline_]
               IN
               CASE ~L_rec.is_recording_ /\ ~L_rec.is_setup_ /\ ~setup_ok ->
                      /\ L_results' = Respond(L_results, "startVideoRecording", n,
                                              Err("recording_setup_failed", "setup"))
                      /\ L_rec' = L_rec
                 [] OTHER ->
                      /\ L_results' = Respond(L_results, "startVideoRecording", n, Ok(0, 0))
                      /\ L_rec' = [setup EXCEPT !.drop = FALSE, !.is_recording_ = TRUE,
                                                !.output_path_ = n]
  /\ UNCHANGED <<L_cfg, L_state_, L_pending_init_call_, L_init_timeout_id_, L_timers,
                 L_first_frame_received_, L_preview_paused_, L_image_streaming_,
                 L_image_stream_callback_, L_actual, L_pipeline_, L_pipes,
                 L_bus_watch_id_, L_watches, L_texture_, L_stream, L_main, L_spc,
                 L_dpc, L_idle, L_tasks, L_count, L_at_dispose, L_reply, W_vars,
                 R_vars, T_vars, S_vars, D_vars, Q_vars, V_vars, platform>>

\* Camera::StartVideoRecording with RecordHandler::Setup and ::StartRecording
L_StartVideoRecording_upto(max) ==
  /\ platform = "linux"
  /\ L_MainFree
  /\ L_ncalls["startVideoRecording"] < max
  /\ LET n == L_ncalls["startVideoRecording"] + 1 IN
     /\ L_ncalls' = [L_ncalls EXCEPT !["startVideoRecording"] = n]
     /\ IF L_state_ \notin {"Running", "Paused"}
        THEN /\ L_results' = Respond(L_results, "startVideoRecording", n, L_NotRunning)
             /\ L_rec' = L_rec
        ELSE \E setup_ok \in BOOLEAN :
               LET setup == IF L_rec.is_setup_ \/ ~setup_ok THEN L_rec
                            ELSE [L_rec EXCEPT !.is_setup_ = TRUE, !.drop = TRUE,
                                               !.pipe = L_pipeline_]
               IN
               CASE ~L_rec.is_recording_ /\ ~L_rec.is_setup_ /\ ~setup_ok ->
                      /\ L_results' = Respond(L_results, "startVideoRecording", n,
                                              Err("recording_setup_failed", "setup"))
                      /\ L_rec' = L_rec
                 [] L_rec.is_recording_ ->
                      /\ L_results' = Respond(L_results, "startVideoRecording", n,
                                              L_AlreadyRecording)
                      /\ L_rec' = L_rec
                 [] OTHER ->
                      /\ L_results' = Respond(L_results, "startVideoRecording", n, Ok(0, 0))
                      /\ L_rec' = [setup EXCEPT !.drop = FALSE, !.is_recording_ = TRUE,
                                                !.output_path_ = n]
  /\ UNCHANGED <<L_cfg, L_state_, L_pending_init_call_, L_init_timeout_id_, L_timers,
                 L_first_frame_received_, L_preview_paused_, L_image_streaming_,
                 L_image_stream_callback_, L_actual, L_pipeline_, L_pipes,
                 L_bus_watch_id_, L_watches, L_texture_, L_stream, L_main, L_spc,
                 L_dpc, L_idle, L_tasks, L_count, L_at_dispose, L_reply, W_vars,
                 R_vars, T_vars, S_vars, D_vars, Q_vars, V_vars, platform>>

L_StartVideoRecording == L_StartVideoRecording_upto(MaxCmd)

\* Camera::StopVideoRecording with RecordHandler::StopRecording: the probe on
\* the filesink pad holds the method call until EOS arrives there
L_StopVideoRecording ==
  /\ platform = "linux"
  /\ L_MainFree
  /\ L_ncalls["stopVideoRecording"] < MaxCmd
  /\ LET n == L_ncalls["stopVideoRecording"] + 1 IN
     /\ L_ncalls' = [L_ncalls EXCEPT !["stopVideoRecording"] = n]
     /\ IF ~L_rec.is_recording_
        THEN /\ L_results' = Respond(L_results, "stopVideoRecording", n,
                                     Err("not_recording", "No recording in progress"))
             /\ L_rec' = L_rec
        ELSE /\ L_results' = L_results
             /\ L_rec' = [L_rec EXCEPT !.probes = @ \cup {n}, !.eos = @ + 1,
                                       !.drop = TRUE]
  /\ UNCHANGED <<L_cfg, L_state_, L_pending_init_call_, L_init_timeout_id_, L_timers,
                 L_first_frame_received_, L_preview_paused_, L_image_streaming_,
                 L_image_stream_callback_, L_actual, L_pipeline_, L_pipes,
                 L_bus_watch_id_, L_watches, L_texture_, L_stream, L_main, L_spc,
                 L_dpc, L_idle, L_tasks, L_count, L_at_dispose, L_reply, W_vars,
                 R_vars, T_vars, S_vars, D_vars, Q_vars, V_vars, platform>>

\* RecordHandler::OnEosEvent: EOS reaches the filesink pad of a pipeline that
\* is still running; the response is marshalled to the main loop
L_OnEosEvent(n) ==
  /\ platform = "linux"
  /\ n \in L_rec.probes
  /\ L_rec.pipe # 0
  /\ L_pipes[L_rec.pipe] = "playing"
  /\ L_rec' = [L_rec EXCEPT !.probes = @ \ {n}]
  /\ L_idle' = Append(L_idle, [kind |-> "stop_done", call |-> n, ok |-> TRUE])
  /\ UNCHANGED <<L_cfg, L_state_, L_pending_init_call_, L_init_timeout_id_, L_timers,
                 L_first_frame_received_, L_preview_paused_, L_image_streaming_,
                 L_image_stream_callback_, L_actual, L_pipeline_, L_pipes,
                 L_bus_watch_id_, L_watches, L_texture_, L_stream, L_main, L_spc,
                 L_dpc, L_tasks, L_results, L_ncalls, L_count, L_at_dispose, L_reply,
                 W_vars, R_vars, T_vars, S_vars, D_vars, Q_vars, V_vars, platform>>

\* Camera::PausePreview
L_PausePreview ==
  /\ platform = "linux"
  /\ L_MainFree
  /\ L_preview_paused_' = TRUE
  /\ UNCHANGED <<L_cfg, L_state_, L_pending_init_call_, L_init_timeout_id_, L_timers,
                 L_first_frame_received_, L_image_streaming_,
                 L_image_stream_callback_, L_actual, L_pipeline_, L_pipes,
                 L_bus_watch_id_, L_watches, L_texture_, L_stream, L_rec, L_main,
                 L_spc, L_dpc, L_idle, L_tasks, L_results, L_ncalls, L_count,
                 L_at_dispose, L_reply, W_vars, R_vars, T_vars, S_vars, D_vars,
                 Q_vars, V_vars, platform>>

\* Camera::ResumePreview
L_ResumePreview ==
  /\ platform = "linux"
  /\ L_MainFree
  /\ L_preview_paused_' = FALSE
  /\ UNCHANGED <<L_cfg, L_state_, L_pending_init_call_, L_init_timeout_id_, L_timers,
                 L_first_frame_received_, L_image_streaming_,
                 L_image_stream_callback_, L_actual, L_pipeline_, L_pipes,
                 L_bus_watch_id_, L_watches, L_texture_, L_stream, L_rec, L_main,
                 L_spc, L_dpc, L_idle, L_tasks, L_results, L_ncalls, L_count,
                 L_at_dispose, L_reply, W_vars, R_vars, T_vars, S_vars, D_vars,
                 Q_vars, V_vars, platform>>

\* Camera::StartImageStream
L_StartImageStream ==
  /\ platform = "linux"
  /\ L_MainFree
  /\ L_image_streaming_' = TRUE
  /\ UNCHANGED <<L_cfg, L_state_, L_pending_init_call_, L_init_timeout_id_, L_timers,
                 L_first_frame_received_, L_preview_paused_, L_image_stream_callback_,
                 L_actual, L_pipeline_, L_pipes, L_bus_watch_id_, L_watches,
                 L_texture_, L_stream, L_rec, L_main, L_spc, L_dpc, L_idle, L_tasks,
                 L_results, L_ncalls, L_count, L_at_dispose, L_reply, W_vars, R_vars,
                 T_vars, S_vars, D_vars, Q_vars, V_vars, platform>>

\* Camera::StopImageStream
L_StopImageStream ==
  /\ platform = "linux"
  /\ L_MainFree
  /\ L_image_streaming_' = FALSE
  /\ UNCHANGED <<L_cfg, L_state_, L_pending_init_call_, L_init_timeout_id_, L_timers,
                 L_first_frame_received_, L_preview_paused_, L_image_stream_callback_,
                 L_actual, L_pipeline_, L_pipes, L_bus_watch_id_, L_watches,
                 L_texture_, L_stream, L_rec, L_main, L_spc, L_dpc, L_idle, L_tasks,
                 L_results, L_ncalls, L_count, L_at_dispose, L_reply, W_vars, R_vars,
                 T_vars, S_vars, D_vars, Q_vars, V_vars, platform>>

\* Camera::RegisterImageStreamCallback
L_RegisterImageStreamCallback ==
  /\ platform = "linux"
  /\ L_MainFree
  /\ L_image_stream_callback_' = TRUE
  /\ UNCHANGED <<L_cfg, L_state_, L_pending_init_call_, L_init_timeout_id_, L_timers,
                 L_first_frame_received_, L_preview_paused_, L_image_streaming_,
                 L_actual, L_pipeline_, L_pipes, L_bus_watch_id_, L_watches,
                 L_texture_, L_stream, L_rec, L_main, L_spc, L_dpc, L_idle, L_tasks,
                 L_results, L_ncalls, L_count, L_at_dispose, L_reply, W_vars, R_vars,
                 T_vars, S_vars, D_vars, Q_vars, V_vars, platform>>

\* Camera::UnregisterImageStreamCallback
L_UnregisterImageStreamCallback ==
  /\ platform = "linux"
  /\ L_MainFree
  /\ L_image_stream_callback_' = FALSE
  /\ UNCHANGED <<L_cfg, L_state_, L_pending_init_call_, L_init_timeout_id_, L_timers,
                 L_first_frame_received_, L_preview_paused_, L_image_streaming_,
                 L_actual, L_pipeline_, L_pipes, L_bus_watch_id_, L_watches,
                 L_texture_, L_stream, L_rec, L_main, L_spc, L_dpc, L_idle, L_tasks,
                 L_results, L_ncalls, L_count, L_at_dispose, L_reply, W_vars, R_vars,
                 T_vars, S_vars, D_vars, Q_vars, V_vars, platform>>

\* Dispose() by caller d, all its steps
L_Dispose(d) ==
  \/ L_Dispose_exchange(d)
  \/ L_Dispose_pending(d)
  \/ L_Dispose_pipeline(d)
  \/ L_Dispose_release(d)
  \/ L_Dispose_store(d)

\* the session: Initialize, its completions, frames, Dispose from the main loop
L_Session ==
  \/ L_Initialize_check
  \/ L_Initialize_store
  \/ L_Initialize_build
  \/ L_Initialize_failed
  \/ \E t \in PipeIds : L_OnInitTimeout(t)
  \/ L_OnInitTimeout_stop
  \/ \E p \in PipeIds : L_OnBusMessage_error(p)
  \/ L_OnBusMessage_error_store
  \/ \E p \in PipeIds : L_OnBusMessage_eos(p)
  \/ \E p \in PipeIds : L_OnNewSample_pull(p)
  \/ \E p \in PipeIds : L_OnNewSample_store(p)
  \/ \E p \in PipeIds : L_OnNewSample_texture(p)
  \/ \E p \in PipeIds : L_OnNewSample_stream(p)
  \/ L_IdleDispatch
  \/ L_Dispose("main")

L_Preview ==
  \/ L_PausePreview
  \/ L_ResumePreview

L_Photo ==
  \/ L_TakePicture
  \/ \E n \in 1..MaxCmd : L_TakePictureTask(n)

L_StopRecord ==
  \/ L_StopVideoRecording
  \/ \E n \in 1..MaxCmd : L_OnEosEvent(n)

L_StreamControl ==
  \/ L_StartImageStream
  \/ L_StopImageStream
  \/ L_RegisterImageStreamCallback
  \/ L_UnregisterImageStreamCallback

(***************************************************************************)
(* Media Foundation variant: initial state                                 *)
(***************************************************************************)
Attempts == 1..MaxInit

W_TIdle == [pc |-> "none", r |-> 0]

W_SIdle == [pc |-> "idle", r |-> 0, tex |-> FALSE, streamed |-> FALSE, paused |-> FALSE]

W_EIdle == [pc |-> "idle", r |-> 0]

W_Init ==
  /\ W_cfg \in FrameDims
  /\ W_state_ = "Created"
  /\ W_pending_init_ = 0
  /\ W_pending_start_record_ = 0
  /\ W_pending_stop_record_ = 0
  /\ W_first_frame_received_ = FALSE
  /\ W_preview_paused_ = FALSE
  /\ W_image_streaming_ = FALSE
  /\ W_is_recording_ = FALSE
  /\ W_record_handler_ = "null"
  /\ W_capture_engine_ = 0
  /\ W_engine = [previewing |-> FALSE, events |-> {}]
  /\ W_init_timeout_cancelled_ = FALSE
  /\ W_init_timeout_thread_ = 0
  /\ W_latest_frame_ = FALSE
  /\ W_texture_ = TRUE
  /\ W_ipc = [n \in Attempts |-> W_TIdle]
  /\ W_tpc = [n \in Attempts |-> W_TIdle]
  /\ W_spc = W_SIdle
  /\ W_epc = W_EIdle
  /\ W_dpc = "idle"
  /\ W_dispose_callbacks_ = <<>>
  /\ W_tasks = {}
  /\ W_results = [c \in CallIds |-> <<>>]
  /\ W_ncalls = [op \in Ops |-> 0]
  /\ W_count = [frames |-> 0, errors |-> 0,
                dispose |-> [d \in DisposeCallers |-> 0],
                teardowns |-> 0, closing |-> 0, cameraError |-> 0, on_done |-> 0,
                first |-> 0, invoked |-> [d \in DisposeCallers |-> 0]]
  /\ W_terminated = FALSE
  /\ W_at_dispose = NoDispose
  /\ W_image_stream_callback_ = FALSE
  /\ W_stream_handle = FALSE
  /\ W_current_record_path_ = 0
  /\ W_reply = "none"

W_Gone == W_state_ \in {"Disposing", "Disposed"}

\* init_timeout_cancel_mutex_ is held by a timeout thread from the moment its
\* wait times out until CompleteInit has returned
W_CancelMutexFree == \A n \in Attempts : W_tpc[n].pc # "fired"

(***************************************************************************)
(* Media Foundation variant: Initialize and CompleteInit                   *)
(***************************************************************************)

\* Camera::CompleteInit after pending_init_ was moved into r (r # 0): the
\* state change of a failure and the response
W_CompleteInit(r, success, error) ==
  /\ W_state_' = IF ~success /\ W_state_ = "Initializing" THEN "Created" ELSE W_state_
  /\ W_results' = Respond(W_results, "initialize", r,
                          IF success THEN Ok(W_cfg[1], W_cfg[2])
                          ELSE Err("initialization_failed", error))

\* Camera::FailAllPendingResults
W_FailAllPendingResults(error) ==
  LET r1 == IF W_pending_init_ # 0
            THEN Respond(W_results, "initialize", W_pending_init_, Err("disposed", error))
            ELSE W_results
      r2 == IF W_pending_start_record_ # 0
            THEN Respond(r1, "startVideoRecording", W_pending_start_record_,
                         Err("disposed", error))
            ELSE r1
      r3 == IF W_pending_stop_record_ # 0
            THEN Respond(r2, "stopVideoRecording", W_pending_stop_record_,
                         Err("disposed", error))
            ELSE r2
  IN  /\ W_results' = r3
      /\ W_pending_init_' = 0
      /\ W_pending_start_record_' = 0
      /\ W_pending_stop_record_' = 0

\* Camera::Initialize on the platform thread
W_Initialize ==
  /\ platform = "windows"
  /\ ~W_terminated
  /\ W_ncalls["initialize"] < MaxInit
  /\ LET n == W_ncalls["initialize"] + 1 IN
     /\ W_ncalls' = [W_ncalls EXCEPT !["initialize"] = n]
     /\ IF W_state_ # "Created"
        THEN /\ W_results' = Respond(W_results, "initialize", n,
                                     Err("already_initialized",
                                         "Camera is already initialized"))
             /\ UNCHANGED <<W_state_, W_pending_init_, W_first_frame_received_, W_ipc>>
        ELSE /\ W_state_' = "Initializing"
             /\ W_pending_init_' = n
             /\ W_first_frame_received_' = FALSE
             /\ W_ipc' = [W_ipc EXCEPT ![n].pc = "create"]
             /\ W_results' = W_results
  /\ UNCHANGED <<W_cfg, W_pending_start_record_, W_pending_stop_record_,
                 W_preview_paused_, W_image_streaming_, W_is_recording_,
                 W_record_handler_, W_capture_engine_, W_engine,
                 W_init_timeout_cancelled_, W_init_timeout_thread_, W_latest_frame_,
                 W_texture_, W_tpc, W_spc, W_epc, W_dpc, W_dispose_callbacks_,
                 W_tasks, W_count, W_terminated, W_at_dispose,
                 W_image_stream_callback_, W_stream_handle, W_current_record_path_,
                 W_reply, L_vars, R_vars, T_vars, S_vars, D_vars, Q_vars, V_vars,
                 platform>>

\* the detached thread of Initialize: CreateCaptureEngine
W_InitThread_create(n) ==
  /\ platform = "windows"
  /\ ~W_terminated
  /\ W_ipc[n].pc = "create"
  /\ \E ok \in BOOLEAN :
       IF ok
       THEN /\ W_capture_engine_' = n
            /\ W_engine' = [previewing |-> FALSE, events |-> {"initialized"}]
            /\ W_ipc' = [W_ipc EXCEPT ![n].pc = "arm"]
            /\ W_pending_init_' = W_pending_init_
       ELSE /\ W_pending_init_' = 0
            /\ W_ipc' = [W_ipc EXCEPT ![n] = IF W_pending_init_ = 0 THEN [pc |-> "done", r |-> 0]
                                             ELSE [pc |-> "fail", r |-> W_pending_init_]]
            /\ UNCHANGED <<W_capture_engine_, W_engine>>
  /\ UNCHANGED <<W_cfg, W_state_, W_pending_start_record_, W_pending_stop_record_,
                 W_first_frame_received_, W_preview_paused_, W_image_streaming_,
                 W_is_recording_, W_record_handler_, W_init_timeout_cancelled_,
                 W_init_timeout_thread_, W_latest_frame_, W_texture_, W_tpc, W_spc,
                 W_epc, W_dpc, W_dispose_callbacks_, W_tasks, W_results, W_ncalls,
                 W_count, W_terminated, W_at_dispose, W_image_stream_callback_,
                 W_stream_handle, W_current_record_path_, W_reply, L_vars, R_vars,
                 T_vars, S_vars, D_vars, Q_vars, V_vars, platform>>

\* ... CompleteInit(false, "Failed to create capture engine"), second half
W_InitThread_fail(n) ==
  /\ platform = "windows"
  /\ ~W_terminated
  /\ W_ipc[n].pc = "fail"
  /\ W_CompleteInit(W_ipc[n].r, FALSE, "create")
  /\ W_ipc' = [W_ipc EXCEPT ![n] = [pc |-> "done", r |-> 0]]
  /\ UNCHANGED <<W_cfg, W_pending_init_, W_pending_start_record_,
                 W_pending_stop_record_, W_first_frame_received_, W_preview_paused_,
                 W_image_streaming_, W_is_recording_, W_record_handler_,
                 W_capture_engine_, W_engine, W_init_timeout_cancelled_,
                 W_init_timeout_thread_, W_latest_frame_, W_texture_, W_tpc, W_spc,
                 W_epc, W_dpc, W_dispose_callbacks_, W_tasks, W_ncalls, W_count,
                 W_terminated, W_at_dispose, W_image_stream_callback_,
                 W_stream_handle, W_current_record_path_, W_reply, L_vars, R_vars,
                 T_vars, S_vars, D_vars, Q_vars, V_vars, platform>>

\* ... init_timeout_cancelled_ = false; init_timeout_thread_ = std::thread(..).
\* Assigning to a std::thread that is still joinable calls std::terminate.
W_InitThread_arm(n) ==
  /\ platform = "windows"
  /\ ~W_terminated
  /\ W_ipc[n].pc = "arm"
  /\ W_init_timeout_cancelled_' = FALSE
  /\ W_ipc' = [W_ipc EXCEPT ![n].pc = "done"]
  /\ IF W_init_timeout_thread_ # 0
     THEN /\ W_terminated' = TRUE
          /\ UNCHANGED <<W_init_timeout_thread_, W_tpc>>
     ELSE /\ W_init_timeout_thread_' = n
          /\ W_tpc' = [W_tpc EXCEPT ![n].pc = "waiting"]
          /\ W_terminated' = FALSE
  /\ UNCHANGED <<W_cfg, W_state_, W_pending_init_, W_pending_start_record_,
                 W_pending_stop_record_, W_first_frame_received_, W_preview_paused_,
                 W_image_streaming_, W_is_recording_, W_record_handler_,
                 W_capture_engine_, W_engine, W_latest_frame_, W_texture_, W_spc,
                 W_epc, W_dpc, W_dispose_callbacks_, W_tasks, W_results, W_ncalls,
                 W_count, W_at_dispose, W_image_stream_callback_, W_stream_handle,
                 W_current_record_path_, W_reply, L_vars, R_vars, T_vars, S_vars,
                 D_vars, Q_vars, V_vars, platform>>

\* the timeout thread: wait_for returns; on a timeout CompleteInit moves
\* pending_init_ out, still holding init_timeout_cancel_mutex_
W_TimeoutThread_wake(n) ==
  /\ platform = "windows"
  /\ ~W_terminated
  /\ W_tpc[n].pc = "waiting"
  /\ W_CancelMutexFree
  /\ IF W_init_timeout_cancelled_ \/ W_pending_init_ = 0
     THEN /\ W_tpc' = [W_tpc EXCEPT ![n] = [pc |-> "done", r |-> 0]]
          /\ W_pending_init_' = W_pending_init_
     ELSE /\ W_tpc' = [W_tpc EXCEPT ![n] = [pc |-> "fired", r |-> W_pending_init_]]
          /\ W_pending_init_' = 0
  /\ UNCHANGED <<W_cfg, W_state_, W_pending_start_record_, W_pending_stop_record_,
                 W_first_frame_received_, W_preview_paused_, W_image_streaming_,
                 W_is_recording_, W_record_handler_, W_capture_engine_, W_engine,
                 W_init_timeout_cancelled_, W_init_timeout_thread_, W_latest_frame_,
                 W_texture_, W_ipc, W_spc, W_epc, W_dpc, W_dispose_callbacks_,
                 W_tasks, W_results, W_ncalls, W_count, W_terminated, W_at_dispose,
                 W_image_stream_callback_, W_stream_handle, W_current_record_path_,
                 W_reply, L_vars, R_vars, T_vars, S_vars, D_vars, Q_vars, V_vars,
                 platform>>

\* ... CompleteInit(false, "... timed out ..."), second half; the mutex is
\* released
W_TimeoutThread_fail(n) ==
  /\ platform = "windows"
  /\ ~W_terminated
  /\ W_tpc[n].pc = "fired"
  /\ W_CompleteInit(W_tpc[n].r, FALSE, "timeout")
  /\ W_tpc' = [W_tpc EXCEPT ![n] = [pc |-> "done", r |-> 0]]
  /\ UNCHANGED <<W_cfg, W_pending_init_, W_pending_start_record_,
                 W_pending_stop_record_, W_first_frame_received_, W_preview_paused_,
                 W_image_streaming_, W_is_recording_, W_record_handler_,
                 W_capture_engine_, W_engine, W_init_timeout_cancelled_,
                 W_init_timeout_thread_, W_latest_frame_, W_texture_, W_ipc, W_spc,
                 W_epc, W_dpc, W_dispose_callbacks_, W_tasks, W_ncalls, W_count,
                 W_terminated, W_at_dispose, W_image_stream_callback_,
                 W_stream_handle, W_current_record_path_, W_reply, L_vars, R_vars,
                 T_vars, S_vars, D_vars, Q_vars, V_vars, platform>>

(***************************************************************************)
(* Media Foundation variant: Camera::OnPreviewSample on the MF thread      *)
(***************************************************************************)

\* the state guard at entry; latest_frame_ snapshot; texture_->Update unless
\* paused; PostImageStreamFrame; if (!first_frame_received_.exchange(true))
W_OnPreviewSample_frame ==
  /\ platform = "windows"
  /\ ~W_terminated
  /\ W_spc.pc = "idle"
  /\ W_engine.previewing
  /\ W_count.frames < MaxFrames
  /\ W_count' = [W_count EXCEPT !.frames = @ + 1]
  /\ IF W_Gone
     THEN UNCHANGED <<W_latest_frame_, W_first_frame_received_, W_spc>>
     ELSE /\ W_latest_frame_' = TRUE
          /\ W_first_frame_received_' = TRUE
          /\ W_spc' = [W_spc EXCEPT !.pc = IF W_first_frame_received_ THEN "idle"
                                           ELSE "first",
                                    !.paused = W_preview_paused_,
                                    !.tex = ~W_preview_paused_,
                                    !.streamed = W_image_streaming_]
  /\ UNCHANGED <<W_cfg, W_state_, W_pending_init_, W_pending_start_record_,
                 W_pending_stop_record_, W_preview_paused_, W_image_streaming_,
                 W_is_recording_, W_record_handler_, W_capture_engine_, W_engine,
                 W_init_timeout_cancelled_, W_init_timeout_thread_, W_texture_, W_ipc,
                 W_tpc, W_epc, W_dpc, W_dispose_callbacks_, W_tasks, W_results,
                 W_ncalls, W_terminated, W_at_dispose, W_image_stream_callback_,
                 W_stream_handle, W_current_record_path_, W_reply, L_vars, R_vars,
                 T_vars, S_vars, D_vars, Q_vars, V_vars, platform>>

\* the first frame: init_timeout_cancelled_ = true under
\* init_timeout_cancel_mutex_; if (state_ == kInitializing) state_ = kRunning;
\* CompleteInit(true, ...): r = std::move(pending_init_); if (!r) return
W_OnPreviewSample_first ==
  /\ platform = "windows"
  /\ ~W_terminated
  /\ W_spc.pc = "first"
  /\ W_CancelMutexFree
  /\ W_init_timeout_cancelled_' = TRUE
  /\ W_state_' = IF W_state_ = "Initializing" THEN "Running" ELSE W_state_
  /\ W_pending_init_' = 0
  /\ W_spc' = [W_spc EXCEPT !.pc = IF W_pending_init_ = 0 THEN "idle" ELSE "respond",
                            !.r = W_pending_init_]
  /\ W_count' = [W_count EXCEPT !.first = @ + 1]
  /\ UNCHANGED <<W_cfg, W_pending_start_record_, W_pending_stop_record_,
                 W_first_frame_received_, W_preview_paused_, W_image_streaming_,
                 W_is_recording_, W_record_handler_, W_capture_engine_, W_engine,
                 W_init_timeout_thread_, W_latest_frame_, W_texture_, W_ipc, W_tpc,
                 W_epc, W_dpc, W_dispose_callbacks_, W_tasks, W_results, W_ncalls,
                 W_terminated, W_at_dispose, W_image_stream_callback_,
                 W_stream_handle, W_current_record_path_, W_reply, L_vars, R_vars,
                 T_vars, S_vars, D_vars, Q_vars, V_vars, platform>>

\* ... r->Success(...)
W_OnPreviewSample_respond ==
  /\ platform = "windows"
  /\ ~W_terminated
  /\ W_spc.pc = "respond"
  /\ W_CompleteInit(W_spc.r, TRUE, "")
  /\ W_spc' = [W_spc EXCEPT !.pc = "idle", !.r = 0]
  /\ UNCHANGED <<W_cfg, W_pending_init_, W_pending_start_record_,
                 W_pending_stop_record_, W_first_frame_received_, W_preview_paused_,
                 W_image_streaming_, W_is_recording_, W_record_handler_,
                 W_capture_engine_, W_engine, W_init_timeout_cancelled_,
                 W_init_timeout_thread_, W_latest_frame_, W_texture_, W_ipc, W_tpc,
                 W_epc, W_dpc, W_dispose_callbacks_, W_tasks, W_ncalls, W_count,
                 W_terminated, W_at_dispose, W_image_stream_callback_,
                 W_stream_handle, W_current_record_path_, W_reply, L_vars, R_vars,
                 T_vars, S_vars, D_vars, Q_vars, V_vars, platform>>

(***************************************************************************)
(* Media Foundation variant: Camera::OnEngineEvent on the MF thread        *)
(***************************************************************************)
\* MF_CAPTURE_ENGINE_ERROR
W_OnEngineEvent_error ==
  /\ platform = "windows"
  /\ ~W_terminated
  /\ W_epc.pc = "idle"
  /\ W_capture_engine_ # 0
  /\ W_count.errors < MaxErrors
  /\ IF W_Gone
     THEN /\ W_count' = [W_count EXCEPT !.errors = @ + 1]
          /\ UNCHANGED <<W_results, W_pending_init_, W_pending_start_record_,
                         W_pending_stop_record_>>
     ELSE /\ W_FailAllPendingResults("error")
          /\ W_count' = [W_count EXCEPT !.errors = @ + 1, !.cameraError = @ + 1]
  /\ UNCHANGED <<W_cfg, W_state_, W_first_frame_received_, W_preview_paused_,
                 W_image_streaming_, W_is_recording_, W_record_handler_,
                 W_capture_engine_, W_engine, W_init_timeout_cancelled_,
                 W_init_timeout_thread_, W_latest_frame_, W_texture_, W_ipc, W_tpc,
                 W_spc, W_epc, W_dpc, W_dispose_callbacks_, W_tasks, W_ncalls,
                 W_terminated, W_at_dispose, W_image_stream_callback_,
                 W_stream_handle, W_current_record_path_, W_reply, L_vars, R_vars,
                 T_vars, S_vars, D_vars, Q_vars, V_vars, platform>>

\* MF_CAPTURE_ENGINE_INITIALIZED: FindBaseMediaTypes, StartPreviewInternal, or
\* the first half of CompleteInit(false, ...)
W_OnEngineEvent_initialized ==
  /\ platform = "windows"
  /\ ~W_terminated
  /\ W_epc.pc = "idle"
  /\ "initialized" \in W_engine.events
  /\ IF W_Gone
     THEN /\ W_engine' = [W_engine EXCEPT !.events = @ \ {"initialized"}]
          /\ UNCHANGED <<W_pending_init_, W_epc>>
     ELSE \E ok \in BOOLEAN :
            IF ok
            THEN /\ W_engine' = [previewing |-> TRUE,
                                 events |-> W_engine.events \ {"initialized"}]
                 /\ UNCHANGED <<W_pending_init_, W_epc>>
            ELSE /\ W_engine' = [W_engine EXCEPT !.events = @ \ {"initialized"}]
                 /\ W_pending_init_' = 0
                 /\ W_epc' = IF W_pending_init_ = 0 THEN W_EIdle
                             ELSE [pc |-> "fail", r |-> W_pending_init_]
  /\ UNCHANGED <<W_cfg, W_state_, W_pending_start_record_, W_pending_stop_record_,
                 W_first_frame_received_, W_preview_paused_, W_image_streaming_,
                 W_is_recording_, W_record_handler_, W_capture_engine_,
                 W_init_timeout_cancelled_, W_init_timeout_thread_, W_latest_frame_,
                 W_texture_, W_ipc, W_tpc, W_spc, W_dpc, W_dispose_callbacks_,
                 W_tasks, W_results, W_ncalls, W_count, W_terminated, W_at_dispose,
                 W_image_stream_callback_, W_stream_handle, W_current_record_path_,
                 W_reply, L_vars, R_vars, T_vars, S_vars, D_vars, Q_vars, V_vars,
                 platform>>

\* ... CompleteInit(false, ...), second half
W_OnEngineEvent_fail ==
  /\ platform = "windows"
  /\ ~W_terminated
  /\ W_epc.pc = "fail"
  /\ W_CompleteInit(W_epc.r, FALSE, "engine")
  /\ W_epc' = W_EIdle
  /\ UNCHANGED <<W_cfg, W_pending_init_, W_pending_start_record_,
                 W_pending_stop_record_, W_first_frame_received_, W_preview_paused_,
                 W_image_streaming_, W_is_recording_, W_record_handler_,
                 W_capture_engine_, W_engine, W_init_timeout_cancelled_,
                 W_init_timeout_thread_, W_latest_frame_, W_texture_, W_ipc, W_tpc,
                 W_spc, W_dpc, W_dispose_callbacks_, W_tasks, W_ncalls, W_count,
                 W_terminated, W_at_dispose, W_image_stream_callback_,
                 W_stream_handle, W_current_record_path_, W_reply, L_vars, R_vars,
                 T_vars, S_vars, D_vars, Q_vars, V_vars, platform>>

\* RecordHandler lifecycle as camera.cpp uses it
W_CanStart(h) == h = "NotStarted"

W_CanStop(h) == h = "Running"

W_OnRecordStarted(h) == IF h = "Starting" THEN "Running" ELSE h

W_OnRecordStopped(h) == "NotStarted"

\* MF_CAPTURE_ENGINE_RECORD_STARTED
W_OnEngineEvent_record_started ==
  /\ platform = "windows"
  /\ ~W_terminated
  /\ W_epc.pc = "idle"
  /\ "record_started" \in W_engine.events
  /\ W_engine' = [W_engine EXCEPT !.events = @ \ {"record_started"}]
  /\ IF W_Gone
     THEN UNCHANGED <<W_pending_start_record_, W_is_recording_, W_record_handler_, W_results>>
     ELSE /\ W_pending_start_record_' = 0
          /\ \E ok \in BOOLEAN :
               IF ok
               THEN /\ W_record_handler_' = IF W_record_handler_ = "null" THEN "null"
                                            ELSE W_OnRecordStarted(W_record_handler_)
                    /\ W_is_recording_' = W_is_recording_
                    /\ W_results' = IF W_pending_start_record_ = 0 THEN W_results
                                    ELSE Respond(W_results, "startVideoRecording",
                                                 W_pending_start_record_, Ok(0, 0))
               ELSE /\ W_record_handler_' = "null"
                    /\ W_is_recording_' = FALSE
                    /\ W_results' = IF W_pending_start_record_ = 0 THEN W_results
                                    ELSE Respond(W_results, "startVideoRecording",
                                                 W_pending_start_record_,
                                                 Err("recording_failed", "start"))
  /\ UNCHANGED <<W_cfg, W_state_, W_pending_init_, W_pending_stop_record_,
                 W_first_frame_received_, W_preview_paused_, W_image_streaming_,
                 W_capture_engine_, W_init_timeout_cancelled_, W_init_timeout_thread_,
                 W_latest_frame_, W_texture_, W_ipc, W_tpc, W_spc, W_epc, W_dpc,
                 W_dispose_callbacks_, W_tasks, W_ncalls, W_count, W_terminated,
                 W_at_dispose, W_image_stream_callback_, W_stream_handle,
                 W_current_record_path_, W_reply, L_vars, R_vars, T_vars, S_vars,
                 D_vars, Q_vars, V_vars, platform>>

\* MF_CAPTURE_ENGINE_RECORD_STOPPED
W_OnEngineEvent_record_stopped ==
  /\ platform = "windows"
  /\ ~W_terminated
  /\ W_epc.pc = "idle"
  /\ "record_stopped" \in W_engine.events
  /\ W_engine' = [W_engine EXCEPT !.events = @ \ {"record_stopped"}]
  /\ IF W_Gone
     THEN UNCHANGED <<W_pending_stop_record_, W_is_recording_, W_record_handler_, W_results>>
     ELSE /\ W_pending_stop_record_' = 0
          /\ W_is_recording_' = FALSE
          /\ W_record_handler_' = IF W_record_handler_ = "null" THEN "null"
                                  ELSE W_OnRecordStopped(W_record_handler_)
          /\ \E ok \in BOOLEAN :
               W_results' = IF W_pending_stop_record_ = 0 THEN W_results
                            ELSE Respond(W_results, "stopVideoRecording",
                                         W_pending_stop_record_,
                                         IF ok THEN Ok(0, 0)
                                         ELSE Err("recording_failed", "stop"))
  /\ UNCHANGED <<W_cfg, W_state_, W_pending_init_, W_pending_start_record_,
                 W_first_frame_received_, W_preview_paused_, W_image_streaming_,
                 W_capture_engine_, W_init_timeout_cancelled_, W_init_timeout_thread_,
                 W_latest_frame_, W_texture_, W_ipc, W_tpc, W_spc, W_epc, W_dpc,
                 W_dispose_callbacks_, W_tasks, W_ncalls, W_count, W_terminated,
                 W_at_dispose, W_image_stream_callback_, W_stream_handle,
                 W_current_record_path_, W_reply, L_vars, R_vars, T_vars, S_vars,
                 D_vars, Q_vars, V_vars, platform>>

(***************************************************************************)
(* Media Foundation variant: DisposeAsync and DisposeInternal              *)
(***************************************************************************)

\* the callbacks of caller d in dispose_callbacks_
W_Queued(callbacks, d) ==
  Cardinality({i \in 1..Len(callbacks) : callbacks[i] = d})

\* Camera::DisposeAsync(on_done) by caller d, under dispose_mutex_
W_DisposeAsync(d) ==
  /\ platform = "windows"
  /\ ~W_terminated
  /\ W_count.dispose[d] < MaxDispose
  /\ CASE W_state_ = "Disposed" ->
            /\ W_count' = [W_count EXCEPT !.dispose[d] = @ + 1, !.on_done = @ + 1,
                                          !.invoked[d] = @ + 1]
            /\ UNCHANGED <<W_state_, W_dispose_callbacks_, W_dpc, W_at_dispose>>
       [] W_state_ = "Disposing" ->
            /\ W_count' = [W_count EXCEPT !.dispose[d] = @ + 1]
            /\ W_dispose_callbacks_' = Append(W_dispose_callbacks_, d)
            /\ UNCHANGED <<W_state_, W_dpc, W_at_dispose>>
       [] OTHER ->
            /\ W_state_' = "Disposing"
            /\ W_count' = [W_count EXCEPT !.dispose[d] = @ + 1, !.teardowns = @ + 1]
            /\ W_dispose_callbacks_' = Append(W_dispose_callbacks_, d)
            /\ W_dpc' = "cancel"
            /\ W_at_dispose' = AtDispose(W_ncalls, W_results, W_pending_init_)
  /\ UNCHANGED <<W_cfg, W_pending_init_, W_pending_start_record_,
                 W_pending_stop_record_, W_first_frame_received_, W_preview_paused_,
                 W_image_streaming_, W_is_recording_, W_record_handler_,
                 W_capture_engine_, W_engine, W_init_timeout_cancelled_,
                 W_init_timeout_thread_, W_latest_frame_, W_texture_, W_ipc, W_tpc,
                 W_spc, W_epc, W_tasks, W_results, W_ncalls, W_terminated,
                 W_image_stream_callback_, W_stream_handle, W_current_record_path_,
                 W_reply, L_vars, R_vars, T_vars, S_vars, D_vars, Q_vars, V_vars,
                 platform>>

\* init_timeout_cancelled_ = true under init_timeout_cancel_mutex_
W_DisposeInternal_cancel ==
  /\ platform = "windows"
  /\ ~W_terminated
  /\ W_dpc = "cancel"
  /\ W_CancelMutexFree
  /\ W_init_timeout_cancelled_' = TRUE
  /\ W_dpc' = "join"
  /\ UNCHANGED <<W_cfg, W_state_, W_pending_init_, W_pending_start_record_,
                 W_pending_stop_record_, W_first_frame_received_, W_preview_paused_,
                 W_image_streaming_, W_is_recording_, W_record_handler_,
                 W_capture_engine_, W_engine, W_init_timeout_thread_, W_latest_frame_,
                 W_texture_, W_ipc, W_tpc, W_spc, W_epc, W_dispose_callbacks_,
                 W_tasks, W_results, W_ncalls, W_count, W_terminated, W_at_dispose,
                 W_image_stream_callback_, W_stream_handle, W_current_record_path_,
                 W_reply, L_vars, R_vars, T_vars, S_vars, D_vars, Q_vars, V_vars,
                 platform>>

\* if (init_timeout_thread_.joinable()) init_timeout_thread_.join();
\* FailAllPendingResults("Camera disposed")
W_DisposeInternal_fail ==
  /\ platform = "windows"
  /\ ~W_terminated
  /\ W_dpc = "join"
  /\ W_init_timeout_thread_ # 0 => W_tpc[W_init_timeout_thread_].pc = "done"
  /\ W_init_timeout_thread_' = 0
  /\ W_FailAllPendingResults("disposed")
  /\ W_dpc' = "release"
  /\ UNCHANGED <<W_cfg, W_state_, W_first_frame_received_, W_preview_paused_,
                 W_image_streaming_, W_is_recording_, W_record_handler_,
                 W_capture_engine_, W_engine, W_init_timeout_cancelled_,
                 W_latest_frame_, W_texture_, W_ipc, W_tpc, W_spc, W_epc,
                 W_dispose_callbacks_, W_tasks, W_ncalls, W_count, W_terminated,
                 W_at_dispose, W_image_stream_callback_, W_stream_handle,
                 W_current_record_path_, W_reply, L_vars, R_vars, T_vars, S_vars,
                 D_vars, Q_vars, V_vars, platform>>

\* stop recording, stop the preview and release the engine, stop the image
\* stream, unregister the texture, invoke cameraClosing;
\* state_ = CameraState::kDisposed
W_DisposeInternal_release ==
  /\ platform = "windows"
  /\ ~W_terminated
  /\ W_dpc = "release"
  /\ IF W_is_recording_ /\ W_capture_engine_ # 0
     THEN W_is_recording_' = FALSE /\ W_record_handler_' = "null"
     ELSE UNCHANGED <<W_is_recording_, W_record_handler_>>
  /\ W_capture_engine_' = 0
  /\ W_engine' = IF W_capture_engine_ # 0 THEN [previewing |-> FALSE, events |-> {}]
                 ELSE W_engine
  /\ W_image_streaming_' = FALSE
  /\ W_image_stream_callback_' = FALSE
  /\ W_texture_' = FALSE
  /\ W_count' = [W_count EXCEPT !.closing = @ + 1]
  /\ W_state_' = "Disposed"
  /\ W_dpc' = "callbacks"
  /\ UNCHANGED <<W_cfg, W_pending_init_, W_pending_start_record_,
                 W_pending_stop_record_, W_first_frame_received_, W_preview_paused_,
                 W_init_timeout_cancelled_, W_init_timeout_thread_, W_latest_frame_,
                 W_ipc, W_tpc, W_spc, W_epc, W_dispose_callbacks_, W_tasks, W_results,
                 W_ncalls, W_terminated, W_at_dispose, W_stream_handle,
                 W_current_record_path_, W_reply, L_vars, R_vars, T_vars, S_vars,
                 D_vars, Q_vars, V_vars, platform>>

\* callbacks.swap(dispose_callbacks_) and the calls
W_DisposeInternal_callbacks ==
  /\ platform = "windows"
  /\ ~W_terminated
  /\ W_dpc = "callbacks"
  /\ W_count' = [W_count EXCEPT
                  !.on_done = @ + Len(W_dispose_callbacks_),
                  !.invoked = [d \in DisposeCallers |-> @[d] + W_Queued(W_dispose_callbacks_, d)]]
  /\ W_dispose_callbacks_' = <<>>
  /\ W_dpc' = "done"
  /\ UNCHANGED <<W_cfg, W_state_, W_pending_init_, W_pending_start_record_,
                 W_pending_stop_record_, W_first_frame_received_, W_preview_paused_,
                 W_image_streaming_, W_is_recording_, W_record_handler_,
                 W_capture_engine_, W_engine, W_init_timeout_cancelled_,
                 W_init_timeout_thread_, W_latest_frame_, W_texture_, W_ipc, W_tpc,
                 W_spc, W_epc, W_tasks, W_results, W_ncalls, W_terminated,
                 W_at_dispose, W_image_stream_callback_, W_stream_handle,
                 W_current_record_path_, W_reply, L_vars, R_vars, T_vars, S_vars,
                 D_vars, Q_vars, V_vars, platform>>

(***************************************************************************)
(* Media Foundation variant: commands on the platform thread               *)
(***************************************************************************)
W_NotRunning == Err("not_running", "Camera is not running")

\* Camera::TakePicture
W_TakePicture ==
  /\ platform = "windows"
  /\ ~W_terminated
  /\ W_ncalls["takePicture"] < MaxCmd
  /\ LET n == W_ncalls["takePicture"] + 1 IN
     /\ W_ncalls' = [W_ncalls EXCEPT !["takePicture"] = n]
     /\ CASE W_state_ \notin {"Running", "Paused"} ->
               /\ W_results' = Respond(W_results, "takePicture", n, W_NotRunning)
               /\ W_tasks' = W_tasks
          [] W_state_ \in {"Running", "Paused"} /\ ~W_latest_frame_ ->
               /\ W_results' = Respond(W_results, "takePicture", n,
                                       Err("no_frame", "No frame available for capture"))
               /\ W_tasks' = W_tasks
          [] OTHER ->
               /\ W_results' = W_results
               /\ W_tasks' = W_tasks \cup {n}
  /\ UNCHANGED <<W_cfg, W_state_, W_pending_init_, W_pending_start_record_,
                 W_pending_stop_record_, W_first_frame_received_, W_preview_paused_,
                 W_image_streaming_, W_is_recording_, W_record_handler_,
                 W_capture_engine_, W_engine, W_init_timeout_cancelled_,
                 W_init_timeout_thread_, W_latest_frame_, W_texture_, W_ipc, W_tpc,
                 W_spc, W_epc, W_dpc, W_dispose_callbacks_, W_count, W_terminated,
                 W_at_dispose, W_image_stream_callback_, W_stream_handle,
                 W_current_record_path_, W_reply, L_vars, R_vars, T_vars, S_vars,
                 D_vars, Q_vars, V_vars, platform>>

\* the detached thread of TakePicture: PhotoHandler::Write and the response
W_TakePictureTask(n) ==
  /\ platform = "windows"
  /\ ~W_terminated
  /\ n \in W_tasks
  /\ W_tasks' = W_tasks \ {n}
  /\ \E ok \in BOOLEAN :
       W_results' = Respond(W_results, "takePicture", n,
                            IF ok THEN Ok(0, 0) ELSE Err("capture_failed", "write"))
  /\ UNCHANGED <<W_cfg, W_state_, W_pending_init_, W_pending_start_record_,
                 W_pending_stop_record_, W_first_frame_received_, W_preview_paused_,
                 W_image_streaming_, W_is_recording_, W_record_handler_,
                 W_capture_engine_, W_engine, W_init_timeout_cancelled_,
                 W_init_timeout_thread_, W_latest_frame_, W_texture_, W_ipc, W_tpc,
                 W_spc, W_epc, W_dpc, W_dispose_callbacks_, W_ncalls, W_count,
                 W_terminated, W_at_dispose, W_image_stream_callback_,
                 W_stream_handle, W_current_record_path_, W_reply, L_vars, R_vars,
                 T_vars, S_vars, D_vars, Q_vars, V_vars, platform>>

\* Camera::StartVideoRecording
W_StartVideoRecording_upto(max) ==
  /\ platform = "windows"
  /\ ~W_terminated
  /\ W_ncalls["startVideoRecording"] < max
  /\ LET n == W_ncalls["startVideoRecording"] + 1
         reject(code, msg, h) ==
           /\ W_results' = Respond(W_results, "startVideoRecording", n, Err(code, msg))
           /\ W_record_handler_' = h
           /\ UNCHANGED <<W_is_recording_, W_pending_start_record_, W_engine>>
         early == \/ W_state_ \notin {"Running", "Paused"}
                  \/ W_is_recording_
                  \/ W_record_handler_ # "null" /\ ~W_CanStart(W_record_handler_)
                  \/ W_capture_engine_ = 0
     IN
     /\ W_current_record_path_' = IF early THEN W_current_record_path_ ELSE n
     /\ W_ncalls' = [W_ncalls EXCEPT !["startVideoRecording"] = n]
     /\ CASE W_state_ \notin {"Running", "Paused"} ->
               reject("not_running", "Camera is not running", W_record_handler_)
          [] W_state_ \in {"Running", "Paused"} /\ W_is_recording_ ->
               reject("already_recording", "Recording is already in progress", W_record_handler_)
          [] W_state_ \in {"Running", "Paused"} /\ ~W_is_recording_
             /\ W_record_handler_ # "null" /\ ~W_CanStart(W_record_handler_) ->
               reject("already_recording", "cannot be started", W_record_handler_)
          [] OTHER ->
               IF W_capture_engine_ = 0
               THEN reject("not_initialized", "Camera not fully initialized", "NotStarted")
               ELSE \E outcome \in {"sink_failed", "start_failed", "started"} :
                      CASE outcome = "sink_failed" ->
                             reject("recording_failed", "sink", "null")
                        [] outcome = "start_failed" ->
                             reject("recording_failed", "start", "null")
                        [] outcome = "started" ->
                             /\ W_record_handler_' = "Starting"
                             /\ W_is_recording_' = TRUE
                             /\ W_pending_start_record_' = n
                             /\ W_engine' = [W_engine EXCEPT !.events = @ \cup {"record_started"}]
                             /\ W_results' = W_results
  /\ UNCHANGED <<W_cfg, W_state_, W_pending_init_, W_pending_stop_record_,
                 W_first_frame_received_, W_preview_paused_, W_image_streaming_,
                 W_capture_engine_, W_init_timeout_cancelled_, W_init_timeout_thread_,
                 W_latest_frame_, W_texture_, W_ipc, W_tpc, W_spc, W_epc, W_dpc,
                 W_dispose_callbacks_, W_tasks, W_count, W_terminated, W_at_dispose,
                 W_image_stream_callback_, W_stream_handle, W_reply, L_vars, R_vars,
                 T_vars, S_vars, D_vars, Q_vars, V_vars, platform>>

W_StartVideoRecording == W_StartVideoRecording_upto(MaxCmd)

\* Camera::StopVideoRecording
\* a StopVideoRecording that does not ask the handler whether it can stop
W_StopVideoRecording_lax(max) ==
  /\ platform = "windows"
  /\ ~W_terminated
  /\ W_ncalls["stopVideoRecording"] < max
  /\ LET n == W_ncalls["stopVideoRecording"] + 1 IN
     /\ W_ncalls' = [W_ncalls EXCEPT !["stopVideoRecording"] = n]
     /\ IF ~W_is_recording_
        THEN /\ W_results' = Respond(W_results, "stopVideoRecording", n,
                                     Err("not_recording", "No recording in progress"))
             /\ UNCHANGED <<W_record_handler_, W_pending_stop_record_, W_engine>>
        ELSE /\ W_record_handler_' = IF W_record_handler_ = "null" THEN "null"
                                     ELSE "Stopping"
             /\ W_pending_stop_record_' = n
             /\ W_engine' = [W_engine EXCEPT !.events = @ \cup {"record_stopped"}]
             /\ W_results' = W_results
  /\ UNCHANGED <<W_cfg, W_state_, W_pending_init_, W_pending_start_record_,
                 W_first_frame_received_, W_preview_paused_, W_image_streaming_,
                 W_is_recording_, W_capture_engine_, W_init_timeout_cancelled_,
                 W_init_timeout_thread_, W_latest_frame_, W_texture_, W_ipc, W_tpc,
                 W_spc, W_epc, W_dpc, W_dispose_callbacks_, W_tasks, W_count,
                 W_terminated, W_at_dispose, W_image_stream_callback_,
                 W_stream_handle, W_current_record_path_, W_reply, L_vars, R_vars,
                 T_vars, S_vars, D_vars, Q_vars, V_vars, platform>>

W_StopVideoRecording_upto(max) ==
  /\ platform = "windows"
  /\ ~W_terminated
  /\ W_ncalls["stopVideoRecording"] < max
  /\ LET n == W_ncalls["stopVideoRecording"] + 1 IN
     /\ W_ncalls' = [W_ncalls EXCEPT !["stopVideoRecording"] = n]
     /\ CASE ~W_is_recording_ ->
               /\ W_results' = Respond(W_results, "stopVideoRecording", n,
                                       Err("not_recording", "No recording in progress"))
               /\ UNCHANGED <<W_record_handler_, W_is_recording_, W_pending_stop_record_, W_engine>>
          [] W_is_recording_ /\ W_record_handler_ # "null" /\ ~W_CanStop(W_record_handler_) ->
               /\ W_results' = Respond(W_results, "stopVideoRecording", n,
                                       Err("not_recording", "Recording cannot be stopped"))
               /\ UNCHANGED <<W_record_handler_, W_is_recording_, W_pending_stop_record_, W_engine>>
          [] OTHER ->
               \E ok \in BOOLEAN :
                 IF ok
                 THEN /\ W_record_handler_' = IF W_record_handler_ = "null" THEN "null"
                                              ELSE "Stopping"
                      /\ W_pending_stop_record_' = n
                      /\ W_engine' = [W_engine EXCEPT !.events = @ \cup {"record_stopped"}]
                      /\ UNCHANGED <<W_is_recording_, W_results>>
                 ELSE /\ W_record_handler_' = "null"
                      /\ W_is_recording_' = FALSE
                      /\ W_results' = Respond(W_results, "stopVideoRecording", n,
                                              Err("recording_failed", "stop"))
                      /\ UNCHANGED <<W_pending_stop_record_, W_engine>>
  /\ UNCHANGED <<W_cfg, W_state_, W_pending_init_, W_pending_start_record_,
                 W_first_frame_received_, W_preview_paused_, W_image_streaming_,
                 W_capture_engine_, W_init_timeout_cancelled_, W_init_timeout_thread_,
                 W_latest_frame_, W_texture_, W_ipc, W_tpc, W_spc, W_epc, W_dpc,
                 W_dispose_callbacks_, W_tasks, W_count, W_terminated, W_at_dispose,
                 W_image_stream_callback_, W_stream_handle, W_current_record_path_,
                 W_reply, L_vars, R_vars, T_vars, S_vars, D_vars, Q_vars, V_vars,
                 platform>>

W_StopVideoRecording == W_StopVideoRecording_upto(MaxCmd)

\* Camera::PausePreview
W_PausePreview ==
  /\ platform = "windows"
  /\ ~W_terminated
  /\ W_preview_paused_' = TRUE
  /\ W_state_' = IF W_state_ = "Running" THEN "Paused" ELSE W_state_
  /\ UNCHANGED <<W_cfg, W_pending_init_, W_pending_start_record_,
                 W_pending_stop_record_, W_first_frame_received_, W_image_streaming_,
                 W_is_recording_, W_record_handler_, W_capture_engine_, W_engine,
                 W_init_timeout_cancelled_, W_init_timeout_thread_, W_latest_frame_,
                 W_texture_, W_ipc, W_tpc, W_spc, W_epc, W_dpc, W_dispose_callbacks_,
                 W_tasks, W_results, W_ncalls, W_count, W_terminated, W_at_dispose,
                 W_image_stream_callback_, W_stream_handle, W_current_record_path_,
                 W_reply, L_vars, R_vars, T_vars, S_vars, D_vars, Q_vars, V_vars,
                 platform>>

\* Camera::ResumePreview
W_ResumePreview ==
  /\ platform = "windows"
  /\ ~W_terminated
  /\ W_preview_paused_' = FALSE
  /\ W_state_' = IF W_state_ = "Paused" THEN "Running" ELSE W_state_
  /\ UNCHANGED <<W_cfg, W_pending_init_, W_pending_start_record_,
                 W_pending_stop_record_, W_first_frame_received_, W_image_streaming_,
                 W_is_recording_, W_record_handler_, W_capture_engine_, W_engine,
                 W_init_timeout_cancelled_, W_init_timeout_thread_, W_latest_frame_,
                 W_texture_, W_ipc, W_tpc, W_spc, W_epc, W_dpc, W_dispose_callbacks_,
                 W_tasks, W_results, W_ncalls, W_count, W_terminated, W_at_dispose,
                 W_image_stream_callback_, W_stream_handle, W_current_record_path_,
                 W_reply, L_vars, R_vars, T_vars, S_vars, D_vars, Q_vars, V_vars,
                 platform>>

\* Camera::StartImageStream
W_StartImageStream ==
  /\ platform = "windows"
  /\ ~W_terminated
  /\ W_image_streaming_' = TRUE
  /\ UNCHANGED <<W_cfg, W_state_, W_pending_init_, W_pending_start_record_,
                 W_pending_stop_record_, W_first_frame_received_, W_preview_paused_,
                 W_is_recording_, W_record_handler_, W_capture_engine_, W_engine,
                 W_init_timeout_cancelled_, W_init_timeout_thread_, W_latest_frame_,
                 W_texture_, W_ipc, W_tpc, W_spc, W_epc, W_dpc, W_dispose_callbacks_,
                 W_tasks, W_results, W_ncalls, W_count, W_terminated, W_at_dispose,
                 W_image_stream_callback_, W_stream_handle, W_current_record_path_,
                 W_reply, L_vars, R_vars, T_vars, S_vars, D_vars, Q_vars, V_vars,
                 platform>>

\* Camera::StopImageStream
W_StopImageStream ==
  /\ platform = "windows"
  /\ ~W_terminated
  /\ W_image_streaming_' = FALSE
  /\ UNCHANGED <<W_cfg, W_state_, W_pending_init_, W_pending_start_record_,
                 W_pending_stop_record_, W_first_frame_received_, W_preview_paused_,
                 W_is_recording_, W_record_handler_, W_capture_engine_, W_engine,
                 W_init_timeout_cancelled_, W_init_timeout_thread_, W_latest_frame_,
                 W_texture_, W_ipc, W_tpc, W_spc, W_epc, W_dpc, W_dispose_callbacks_,
                 W_tasks, W_results, W_ncalls, W_count, W_terminated, W_at_dispose,
                 W_image_stream_callback_, W_stream_handle, W_current_record_path_,
                 W_reply, L_vars, R_vars, T_vars, S_vars, D_vars, Q_vars, V_vars,
                 platform>>

W_Session ==
  \/ W_Initialize
  \/ \E n \in Attempts : W_InitThread_create(n)
  \/ \E n \in Attempts : W_InitThread_fail(n)
  \/ \E n \in Attempts : W_InitThread_arm(n)
  \/ \E n \in Attempts : W_TimeoutThread_wake(n)
  \/ \E n \in Attempts : W_TimeoutThread_fail(n)
  \/ W_OnPreviewSample_frame
  \/ W_OnPreviewSample_first
  \/ W_OnPreviewSample_respond
  \/ W_OnEngineEvent_error
  \/ W_OnEngineEvent_initialized
  \/ W_OnEngineEvent_fail
  \/ W_DisposeAsync("main")
  \/ W_DisposeInternal_cancel
  \/ W_DisposeInternal_fail
  \/ W_DisposeInternal_release
  \/ W_DisposeInternal_callbacks

W_Preview ==
  \/ W_PausePreview
  \/ W_ResumePreview

W_Photo ==
  \/ W_TakePicture
  \/ \E n \in 1..MaxCmd : W_TakePictureTask(n)

W_StartRecord ==
  \/ W_StartVideoRecording
  \/ W_OnEngineEvent_record_started

W_StopRecord ==
  \/ W_StopVideoRecording
  \/ W_OnEngineEvent_record_stopped

W_StreamControl ==
  \/ W_StartImageStream
  \/ W_StopImageStream

\* Camera::RegisterImageStreamCallback
W_RegisterImageStreamCallback ==
  /\ platform = "windows"
  /\ ~W_terminated
  /\ W_image_stream_callback_' = TRUE
  /\ UNCHANGED <<W_cfg, W_state_, W_pending_init_, W_pending_start_record_,
                 W_pending_stop_record_, W_first_frame_received_, W_preview_paused_,
                 W_image_streaming_, W_is_recording_, W_record_handler_,
                 W_capture_engine_, W_engine, W_init_timeout_cancelled_,
                 W_init_timeout_thread_, W_latest_frame_, W_texture_, W_ipc, W_tpc,
                 W_spc, W_epc, W_dpc, W_dispose_callbacks_, W_tasks, W_results,
                 W_ncalls, W_count, W_terminated, W_at_dispose, W_stream_handle,
                 W_current_record_path_, W_reply, L_vars, R_vars, T_vars, S_vars,
                 D_vars, Q_vars, V_vars, platform>>

\* Camera::UnregisterImageStreamCallback
W_UnregisterImageStreamCallback ==
  /\ platform = "windows"
  /\ ~W_terminated
  /\ W_image_stream_callback_' = FALSE
  /\ UNCHANGED <<W_cfg, W_state_, W_pending_init_, W_pending_start_record_,
                 W_pending_stop_record_, W_first_frame_received_, W_preview_paused_,
                 W_image_streaming_, W_is_recording_, W_record_handler_,
                 W_capture_engine_, W_engine, W_init_timeout_cancelled_,
                 W_init_timeout_thread_, W_latest_frame_, W_texture_, W_ipc, W_tpc,
                 W_spc, W_epc, W_dpc, W_dispose_callbacks_, W_tasks, W_results,
                 W_ncalls, W_count, W_terminated, W_at_dispose, W_stream_handle,
                 W_current_record_path_, W_reply, L_vars, R_vars, T_vars, S_vars,
                 D_vars, Q_vars, V_vars, platform>>

(***************************************************************************)
(* The plugin: each handler looks the camera up before it calls it         *)
(***************************************************************************)
\* find_camera: the camera is in the map until handle_dispose, which runs
\* Dispose() and erases it in the same main-loop handler
L_FindCamera == L_count.dispose["main"] = 0

\* camera_desktop_find_camera_by_id, the lookup of the exported functions
L_FindCameraById == L_FindCamera

\* find_camera answers camera_not_found
L_CameraNotFound(cmd) ==
  /\ platform = "linux"
  /\ L_MainFree
  /\ ~L_FindCamera
  /\ L_reply' = cmd
  /\ UNCHANGED <<L_cfg, L_state_, L_pending_init_call_, L_init_timeout_id_, L_timers,
                 L_first_frame_received_, L_preview_paused_, L_image_streaming_,
                 L_image_stream_callback_, L_actual, L_pipeline_, L_pipes,
                 L_bus_watch_id_, L_watches, L_texture_, L_stream, L_rec, L_main,
                 L_spc, L_dpc, L_idle, L_tasks, L_results, L_ncalls, L_count,
                 L_at_dispose, W_vars, R_vars, T_vars, S_vars, D_vars, Q_vars, V_vars,
                 platform>>

\* the exported function finds no camera and returns
L_FfiNotFound(cmd) ==
  /\ platform = "linux"
  /\ ~L_FindCameraById
  /\ L_reply' = cmd
  /\ UNCHANGED <<L_cfg, L_state_, L_pending_init_call_, L_init_timeout_id_, L_timers,
                 L_first_frame_received_, L_preview_paused_, L_image_streaming_,
                 L_image_stream_callback_, L_actual, L_pipeline_, L_pipes,
                 L_bus_watch_id_, L_watches, L_texture_, L_stream, L_rec, L_main,
                 L_spc, L_dpc, L_idle, L_tasks, L_results, L_ncalls, L_count,
                 L_at_dispose, W_vars, R_vars, T_vars, S_vars, D_vars, Q_vars, V_vars,
                 platform>>

\* find_camera answers camera_not_found to a call that carries a result
L_CallNotFound(op) ==
  /\ platform = "linux"
  /\ L_MainFree
  /\ ~L_FindCamera
  /\ L_ncalls[op] < MaxCmd
  /\ L_ncalls' = [L_ncalls EXCEPT ![op] = @ + 1]
  /\ L_results' = Respond(L_results, op, L_ncalls[op] + 1,
                          Err("camera_not_found", "No camera found with the given ID"))
  /\ UNCHANGED <<L_cfg, L_state_, L_pending_init_call_, L_init_timeout_id_, L_timers,
                 L_first_frame_received_, L_preview_paused_, L_image_streaming_,
                 L_image_stream_callback_, L_actual, L_pipeline_, L_pipes,
                 L_bus_watch_id_, L_watches, L_texture_, L_stream, L_rec, L_main,
                 L_spc, L_dpc, L_idle, L_tasks, L_count, L_at_dispose, L_reply,
                 W_vars, R_vars, T_vars, S_vars, D_vars, Q_vars, V_vars, platform>>

handle_stop_video_recording ==
  \/ L_FindCamera /\ L_StopVideoRecording
  \/ L_CallNotFound("stopVideoRecording")

handle_start_image_stream ==
  \/ L_FindCamera /\ L_StartImageStream
  \/ L_CameraNotFound("startImageStream")

handle_stop_image_stream ==
  \/ L_FindCamera /\ L_StopImageStream
  \/ L_CameraNotFound("stopImageStream")

handle_pause_preview ==
  \/ L_FindCamera /\ L_PausePreview
  \/ L_CameraNotFound("pausePreview")

handle_resume_preview ==
  \/ L_FindCamera /\ L_ResumePreview
  \/ L_CameraNotFound("resumePreview")

camera_desktop_register_image_stream_callback ==
  \/ L_FindCameraById /\ L_RegisterImageStreamCallback
  \/ L_FfiNotFound("registerImageStreamCallback")

camera_desktop_unregister_image_stream_callback ==
  \/ L_FindCameraById /\ L_UnregisterImageStreamCallback
  \/ L_FfiNotFound("unregisterImageStreamCallback")

L_Plugin ==
  \/ handle_stop_video_recording
  \/ handle_start_image_stream
  \/ handle_stop_image_stream
  \/ handle_pause_preview
  \/ handle_resume_preview
  \/ camera_desktop_register_image_stream_callback
  \/ camera_desktop_unregister_image_stream_callback

\* a lookup that does not look at the state of the camera
W_FindCamera_lax == TRUE

\* CameraDesktopPlugin::FindCamera: the camera is in cameras_ (it is erased
\* only after its dispose) and !IsDisposedOrDisposing()
W_FindCamera == ~W_Gone

\* FindCameraByHandle: HandleDispose releases every handle of the camera
\* before it calls DisposeAsync
W_FindCameraByHandle == W_stream_handle /\ W_count.dispose["main"] = 0

\* FindCamera answers camera_not_found
W_CameraNotFound(cmd) ==
  /\ platform = "windows"
  /\ ~W_terminated
  /\ ~W_FindCamera
  /\ W_reply' = cmd
  /\ UNCHANGED <<W_cfg, W_state_, W_pending_init_, W_pending_start_record_,
                 W_pending_stop_record_, W_first_frame_received_, W_preview_paused_,
                 W_image_streaming_, W_is_recording_, W_record_handler_,
                 W_capture_engine_, W_engine, W_init_timeout_cancelled_,
                 W_init_timeout_thread_, W_latest_frame_, W_texture_, W_ipc, W_tpc,
                 W_spc, W_epc, W_dpc, W_dispose_callbacks_, W_tasks, W_results,
                 W_ncalls, W_count, W_terminated, W_at_dispose,
                 W_image_stream_callback_, W_stream_handle, W_current_record_path_,
                 L_vars, R_vars, T_vars, S_vars, D_vars, Q_vars, V_vars, platform>>

\* the exported function finds no camera and returns
W_FfiNotFound(cmd) ==
  /\ platform = "windows"
  /\ ~W_terminated
  /\ ~W_FindCameraByHandle
  /\ W_reply' = cmd
  /\ UNCHANGED <<W_cfg, W_state_, W_pending_init_, W_pending_start_record_,
                 W_pending_stop_record_, W_first_frame_received_, W_preview_paused_,
                 W_image_streaming_, W_is_recording_, W_record_handler_,
                 W_capture_engine_, W_engine, W_init_timeout_cancelled_,
                 W_init_timeout_thread_, W_latest_frame_, W_texture_, W_ipc, W_tpc,
                 W_spc, W_epc, W_dpc, W_dispose_callbacks_, W_tasks, W_results,
                 W_ncalls, W_count, W_terminated, W_at_dispose,
                 W_image_stream_callback_, W_stream_handle, W_current_record_path_,
                 L_vars, R_vars, T_vars, S_vars, D_vars, Q_vars, V_vars, platform>>

\* FindCamera answers camera_not_found to a call that carries a result
W_CallNotFound(op) ==
  /\ platform = "windows"
  /\ ~W_terminated
  /\ ~W_FindCamera
  /\ W_ncalls[op] < MaxCmd
  /\ W_ncalls' = [W_ncalls EXCEPT ![op] = @ + 1]
  /\ W_results' = Respond(W_results, op, W_ncalls[op] + 1,
                          Err("camera_not_found", "No camera with id"))
  /\ UNCHANGED <<W_cfg, W_state_, W_pending_init_, W_pending_start_record_,
                 W_pending_stop_record_, W_first_frame_received_, W_preview_paused_,
                 W_image_streaming_, W_is_recording_, W_record_handler_,
                 W_capture_engine_, W_engine, W_init_timeout_cancelled_,
                 W_init_timeout_thread_, W_latest_frame_, W_texture_, W_ipc, W_tpc,
                 W_spc, W_epc, W_dpc, W_dispose_callbacks_, W_tasks, W_count,
                 W_terminated, W_at_dispose, W_image_stream_callback_,
                 W_stream_handle, W_current_record_path_, W_reply, L_vars, R_vars,
                 T_vars, S_vars, D_vars, Q_vars, V_vars, platform>>

HandleStopVideoRecording ==
  \/ W_FindCamera /\ W_StopVideoRecording
  \/ W_CallNotFound("stopVideoRecording")

\* camera->StartImageStream(); camera_desktop_ffi_register_stream_handle
HandleStartImageStream_found ==
  /\ platform = "windows"
  /\ ~W_terminated
  /\ W_FindCamera
  /\ W_image_streaming_' = TRUE
  /\ W_stream_handle' = TRUE
  /\ UNCHANGED <<W_cfg, W_state_, W_pending_init_, W_pending_start_record_,
                 W_pending_stop_record_, W_first_frame_received_, W_preview_paused_,
                 W_is_recording_, W_record_handler_, W_capture_engine_, W_engine,
                 W_init_timeout_cancelled_, W_init_timeout_thread_, W_latest_frame_,
                 W_texture_, W_ipc, W_tpc, W_spc, W_epc, W_dpc, W_dispose_callbacks_,
                 W_tasks, W_results, W_ncalls, W_count, W_terminated, W_at_dispose,
                 W_image_stream_callback_, W_current_record_path_, W_reply, L_vars,
                 R_vars, T_vars, S_vars, D_vars, Q_vars, V_vars, platform>>

HandleStartImageStream ==
  \/ HandleStartImageStream_found
  \/ W_CameraNotFound("startImageStream")

\* camera_desktop_ffi_release_stream_handle; camera->StopImageStream()
HandleStopImageStream_found ==
  /\ platform = "windows"
  /\ ~W_terminated
  /\ W_FindCamera
  /\ W_image_streaming_' = FALSE
  /\ W_stream_handle' = FALSE
  /\ UNCHANGED <<W_cfg, W_state_, W_pending_init_, W_pending_start_record_,
                 W_pending_stop_record_, W_first_frame_received_, W_preview_paused_,
                 W_is_recording_, W_record_handler_, W_capture_engine_, W_engine,
                 W_init_timeout_cancelled_, W_init_timeout_thread_, W_latest_frame_,
                 W_texture_, W_ipc, W_tpc, W_spc, W_epc, W_dpc, W_dispose_callbacks_,
                 W_tasks, W_results, W_ncalls, W_count, W_terminated, W_at_dispose,
                 W_image_stream_callback_, W_current_record_path_, W_reply, L_vars,
                 R_vars, T_vars, S_vars, D_vars, Q_vars, V_vars, platform>>

HandleStopImageStream ==
  \/ HandleStopImageStream_found
  \/ W_CameraNotFound("stopImageStream")

HandlePausePreview ==
  \/ W_FindCamera /\ W_PausePreview
  \/ W_CameraNotFound("pausePreview")

HandleResumePreview ==
  \/ W_FindCamera /\ W_ResumePreview
  \/ W_CameraNotFound("resumePreview")

W_camera_desktop_register_image_stream_callback ==
  \/ W_FindCameraByHandle /\ W_RegisterImageStreamCallback
  \/ W_FfiNotFound("registerImageStreamCallback")

W_camera_desktop_unregister_image_stream_callback ==
  \/ W_FindCameraByHandle /\ W_UnregisterImageStreamCallback
  \/ W_FfiNotFound("unregisterImageStreamCallback")

W_Plugin ==
  \/ HandleStopVideoRecording
  \/ HandleStartImageStream
  \/ HandleStopImageStream
  \/ HandlePausePreview
  \/ HandleResumePreview
  \/ W_camera_desktop_register_image_stream_callback
  \/ W_camera_desktop_unregister_image_stream_callback

(***************************************************************************)
(* RecordHandler of the Media Foundation variant                           *)
(* (src/windows/record_handler.cpp)                                        *)
(***************************************************************************)
kMaxVideoQueueItems == 8
kMaxAudioQueueItems == 64

\* int fps_ = 30
Fps == 30

\* frame_duration_100ns_ = 10'000'000LL / fps_
FrameDuration == 10000000 \div Fps

Recordings == 0..MaxRec

R_FIdle == [pc |-> "none", path |-> 0, audio_t |-> FALSE, writer_t |-> FALSE]

R_PIdle == [pc |-> "idle", ts |-> 0]

R_WNone == [pc |-> "none", kind |-> "Video"]

R_NoHist == [finalize |-> [r \in Recordings |-> 0],
             on_done |-> [r \in Recordings |-> 0],
             started |-> {}, stopped |-> {},
             enq |-> <<>>, offered |-> 0, dequeued |-> 0]

\* RecordHandler::RecordHandler, and the frames and samples that will arrive
R_Init(supply) ==
  /\ R_supply = supply
  /\ R_is_recording_ = FALSE
  /\ R_accepting_queue_items_ = FALSE
  /\ R_writer_running_ = FALSE
  /\ R_audio_running_ = FALSE
  /\ R_queue_ = <<>>
  /\ R_video_queue_size_ = 0
  /\ R_audio_queue_size_ = 0
  /\ R_video_frame_counter_ = 0
  /\ R_output_path_ = 0
  /\ R_writer_ = "null"
  /\ R_writer_thread_ = FALSE
  /\ R_audio_thread_ = FALSE
  /\ R_stop_thread_ = FALSE
  /\ R_cpc = [pc |-> "idle", rec |-> 0]
  /\ R_ppc = R_PIdle
  /\ R_wpc = R_WNone
  /\ R_apc = "none"
  /\ R_fpc = R_FIdle
  /\ R_ncalls = [start |-> 0, stop |-> 0]
  /\ R_hist = R_NoHist
  /\ R_terminated = FALSE

R_NoSupply == [video |-> 0, audio |-> 0, starts |-> 0, stops |-> 0]

\* what the caller and the devices will do: recordings of video only, one
\* recording with video and audio, one recording fed with audio only
R_Supplies ==
  {[video |-> MaxAppend, audio |-> 0, starts |-> MaxRec, stops |-> MaxStop],
   [video |-> MaxMixed, audio |-> MaxMixed, starts |-> 1, stops |-> 1],
   [video |-> 0, audio |-> MaxSamples, starts |-> 1, stops |-> 1]}

R_Count(kind) == Cardinality({i \in 1..Len(R_queue_) : R_queue_[i].kind = kind})

\* a Start that does not wait for the finalizer of the previous Stop
R_Start_enter_nojoin ==
  /\ platform = "windows"
  /\ ~R_terminated
  /\ R_cpc.pc = "idle"
  /\ R_ncalls.start < R_supply.starts
  /\ R_ncalls' = [R_ncalls EXCEPT !.start = @ + 1]
  /\ R_cpc' = [pc |-> "start_open", rec |-> R_ncalls.start + 1]
  /\ UNCHANGED <<R_supply, R_is_recording_, R_accepting_queue_items_,
                 R_writer_running_, R_audio_running_, R_queue_, R_video_queue_size_,
                 R_audio_queue_size_, R_video_frame_counter_, R_output_path_,
                 R_writer_, R_writer_thread_, R_audio_thread_, R_stop_thread_, R_ppc,
                 R_wpc, R_apc, R_fpc, R_hist, R_terminated, L_vars, W_vars, T_vars,
                 S_vars, D_vars, Q_vars, V_vars, platform>>

\* RecordHandler::Start: lifecycle_mutex_ taken, stop_thread_.joinable() tested
R_Start_enter ==
  /\ platform = "windows"
  /\ ~R_terminated
  /\ R_cpc.pc = "idle"
  /\ R_ncalls.start < R_supply.starts
  /\ R_ncalls' = [R_ncalls EXCEPT !.start = @ + 1]
  /\ R_cpc' = [pc |-> IF R_stop_thread_ THEN "start_join" ELSE "start_open",
               rec |-> R_ncalls.start + 1]
  /\ UNCHANGED <<R_supply, R_is_recording_, R_accepting_queue_items_,
                 R_writer_running_, R_audio_running_, R_queue_, R_video_queue_size_,
                 R_audio_queue_size_, R_video_frame_counter_, R_output_path_,
                 R_writer_, R_writer_thread_, R_audio_thread_, R_stop_thread_, R_ppc,
                 R_wpc, R_apc, R_fpc, R_hist, R_terminated, L_vars, W_vars, T_vars,
                 S_vars, D_vars, Q_vars, V_vars, platform>>

\* stop_thread_.join() returns when the finalizer has ended
R_Start_join ==
  /\ platform = "windows"
  /\ ~R_terminated
  /\ R_cpc.pc = "start_join"
  /\ R_fpc.pc = "exited"
  /\ R_stop_thread_' = FALSE
  /\ R_fpc' = R_FIdle
  /\ R_cpc' = [R_cpc EXCEPT !.pc = "start_open"]
  /\ UNCHANGED <<R_supply, R_is_recording_, R_accepting_queue_items_,
                 R_writer_running_, R_audio_running_, R_queue_, R_video_queue_size_,
                 R_audio_queue_size_, R_video_frame_counter_, R_output_path_,
                 R_writer_, R_writer_thread_, R_audio_thread_, R_ppc, R_wpc, R_apc,
                 R_ncalls, R_hist, R_terminated, L_vars, W_vars, T_vars, S_vars,
                 D_vars, Q_vars, V_vars, platform>>

\* the is_recording_ test, output_path_ = path, the sink writer is created
R_Start_open ==
  /\ platform = "windows"
  /\ ~R_terminated
  /\ R_cpc.pc = "start_open"
  /\ IF R_is_recording_
     THEN /\ R_cpc' = [pc |-> "idle", rec |-> 0]
          /\ UNCHANGED <<R_output_path_, R_writer_>>
     ELSE /\ R_output_path_' = R_cpc.rec
          /\ \E ok \in BOOLEAN :
               IF ok
               THEN /\ R_writer_' = "open"
                    /\ R_cpc' = [R_cpc EXCEPT !.pc = "start_reset"]
               ELSE /\ R_writer_' \in {R_writer_, "open"}
                    /\ R_cpc' = [pc |-> "idle", rec |-> 0]
  /\ UNCHANGED <<R_supply, R_is_recording_, R_accepting_queue_items_,
                 R_writer_running_, R_audio_running_, R_queue_, R_video_queue_size_,
                 R_audio_queue_size_, R_video_frame_counter_, R_writer_thread_,
                 R_audio_thread_, R_stop_thread_, R_ppc, R_wpc, R_apc, R_fpc,
                 R_ncalls, R_hist, R_terminated, L_vars, W_vars, T_vars, S_vars,
                 D_vars, Q_vars, V_vars, platform>>

\* "Reset per-recording state": the queue, the frame counter, the sizes
R_Start_reset ==
  /\ platform = "windows"
  /\ ~R_terminated
  /\ R_cpc.pc = "start_reset"
  /\ R_queue_' = <<>>
  /\ R_video_frame_counter_' = 0
  /\ R_video_queue_size_' = 0
  /\ R_audio_queue_size_' = 0
  /\ R_hist' = [R_hist EXCEPT !.enq = <<>>, !.offered = 0, !.dequeued = 0]
  /\ R_cpc' = [R_cpc EXCEPT !.pc = "start_go"]
  /\ UNCHANGED <<R_supply, R_is_recording_, R_accepting_queue_items_,
                 R_writer_running_, R_audio_running_, R_output_path_, R_writer_,
                 R_writer_thread_, R_audio_thread_, R_stop_thread_, R_ppc, R_wpc,
                 R_apc, R_fpc, R_ncalls, R_terminated, L_vars, W_vars, T_vars, S_vars,
                 D_vars, Q_vars, V_vars, platform>>

\* accepting_queue_items_ = is_recording_ = true; the writer thread and, with
\* audio, the audio thread are started
R_Start_go ==
  /\ platform = "windows"
  /\ ~R_terminated
  /\ R_cpc.pc = "start_go"
  /\ R_accepting_queue_items_' = TRUE
  /\ R_is_recording_' = TRUE
  /\ R_writer_running_' = TRUE
  /\ R_writer_thread_' = TRUE
  /\ R_wpc' = [pc |-> "wait", kind |-> "Video"]
  /\ IF R_supply.audio > 0
     THEN /\ R_audio_running_' = TRUE
          /\ R_audio_thread_' = TRUE
          /\ R_apc' = "read"
     ELSE UNCHANGED <<R_audio_running_, R_audio_thread_, R_apc>>
  /\ R_hist' = [R_hist EXCEPT !.started = @ \cup {R_cpc.rec}]
  /\ R_cpc' = [pc |-> "idle", rec |-> 0]
  /\ UNCHANGED <<R_supply, R_queue_, R_video_queue_size_, R_audio_queue_size_,
                 R_video_frame_counter_, R_output_path_, R_writer_, R_stop_thread_,
                 R_ppc, R_fpc, R_ncalls, R_terminated, L_vars, W_vars, T_vars, S_vars,
                 D_vars, Q_vars, V_vars, platform>>

\* RecordHandler::Stop: it returns without waiting for any thread
R_Stop ==
  /\ platform = "windows"
  /\ ~R_terminated
  /\ R_cpc.pc = "idle"
  /\ R_ncalls.stop < R_supply.stops
  /\ R_ncalls' = [R_ncalls EXCEPT !.stop = @ + 1]
  /\ IF ~R_is_recording_ /\ ~R_audio_thread_ /\ ~R_writer_thread_ /\ ~R_stop_thread_
     THEN /\ R_hist' = [R_hist EXCEPT !.on_done[R_output_path_] = @ + 1]
          /\ UNCHANGED <<R_accepting_queue_items_, R_is_recording_, R_audio_running_,
                         R_writer_running_, R_audio_thread_, R_writer_thread_,
                         R_stop_thread_, R_fpc, R_terminated>>
     ELSE /\ R_accepting_queue_items_' = FALSE
          /\ R_is_recording_' = FALSE
          /\ R_audio_running_' = FALSE
          /\ R_writer_running_' = FALSE
          /\ R_audio_thread_' = FALSE
          /\ R_writer_thread_' = FALSE
          /\ R_hist' = [R_hist EXCEPT !.stopped = @ \cup ({R_output_path_} \cap R_hist.started)]
          /\ IF R_stop_thread_
             THEN /\ R_terminated' = TRUE
                  /\ UNCHANGED <<R_stop_thread_, R_fpc>>
             ELSE /\ R_stop_thread_' = TRUE
                  /\ R_fpc' = [pc |-> "join_audio", path |-> R_output_path_,
                               audio_t |-> R_audio_thread_, writer_t |-> R_writer_thread_]
                  /\ R_terminated' = FALSE
  /\ UNCHANGED <<R_supply, R_queue_, R_video_queue_size_, R_audio_queue_size_,
                 R_video_frame_counter_, R_output_path_, R_writer_, R_cpc, R_ppc,
                 R_wpc, R_apc, L_vars, W_vars, T_vars, S_vars, D_vars, Q_vars, V_vars,
                 platform>>

\* the finalizer: audio_t.join(), audio_reader_.Reset()
R_StopThread_join_audio ==
  /\ platform = "windows"
  /\ ~R_terminated
  /\ R_fpc.pc = "join_audio"
  /\ R_fpc.audio_t => R_apc = "exited"
  /\ R_apc' = IF R_fpc.audio_t THEN "none" ELSE R_apc
  /\ R_fpc' = [R_fpc EXCEPT !.pc = "join_writer"]
  /\ UNCHANGED <<R_supply, R_is_recording_, R_accepting_queue_items_,
                 R_writer_running_, R_audio_running_, R_queue_, R_video_queue_size_,
                 R_audio_queue_size_, R_video_frame_counter_, R_output_path_,
                 R_writer_, R_writer_thread_, R_audio_thread_, R_stop_thread_, R_cpc,
                 R_ppc, R_wpc, R_ncalls, R_hist, R_terminated, L_vars, W_vars, T_vars,
                 S_vars, D_vars, Q_vars, V_vars, platform>>

\* writer_t.join(), writer_.Reset()
R_StopThread_join_writer ==
  /\ platform = "windows"
  /\ ~R_terminated
  /\ R_fpc.pc = "join_writer"
  /\ R_fpc.writer_t => R_wpc.pc = "exited"
  /\ R_wpc' = IF R_fpc.writer_t THEN R_WNone ELSE R_wpc
  /\ R_writer_' = "null"
  /\ R_fpc' = [R_fpc EXCEPT !.pc = "clear"]
  /\ UNCHANGED <<R_supply, R_is_recording_, R_accepting_queue_items_,
                 R_writer_running_, R_audio_running_, R_queue_, R_video_queue_size_,
                 R_audio_queue_size_, R_video_frame_counter_, R_output_path_,
                 R_writer_thread_, R_audio_thread_, R_stop_thread_, R_cpc, R_ppc,
                 R_apc, R_ncalls, R_hist, R_terminated, L_vars, W_vars, T_vars,
                 S_vars, D_vars, Q_vars, V_vars, platform>>

\* the queue is emptied under queue_mutex_, the sizes are zeroed
R_StopThread_clear ==
  /\ platform = "windows"
  /\ ~R_terminated
  /\ R_fpc.pc = "clear"
  /\ R_queue_' = <<>>
  /\ R_video_queue_size_' = 0
  /\ R_audio_queue_size_' = 0
  /\ R_fpc' = [R_fpc EXCEPT !.pc = "on_done"]
  /\ UNCHANGED <<R_supply, R_is_recording_, R_accepting_queue_items_,
                 R_writer_running_, R_audio_running_, R_video_frame_counter_,
                 R_output_path_, R_writer_, R_writer_thread_, R_audio_thread_,
                 R_stop_thread_, R_cpc, R_ppc, R_wpc, R_apc, R_ncalls, R_hist,
                 R_terminated, L_vars, W_vars, T_vars, S_vars, D_vars, Q_vars, V_vars,
                 platform>>

\* on_done(path)
R_StopThread_on_done ==
  /\ platform = "windows"
  /\ ~R_terminated
  /\ R_fpc.pc = "on_done"
  /\ R_hist' = [R_hist EXCEPT !.on_done[R_fpc.path] = @ + 1]
  /\ R_fpc' = [R_fpc EXCEPT !.pc = "exited"]
  /\ UNCHANGED <<R_supply, R_is_recording_, R_accepting_queue_items_,
                 R_writer_running_, R_audio_running_, R_queue_, R_video_queue_size_,
                 R_audio_queue_size_, R_video_frame_counter_, R_output_path_,
                 R_writer_, R_writer_thread_, R_audio_thread_, R_stop_thread_, R_cpc,
                 R_ppc, R_wpc, R_apc, R_ncalls, R_terminated, L_vars, W_vars, T_vars,
                 S_vars, D_vars, Q_vars, V_vars, platform>>

\* RecordHandler::AppendFrame: the first test of the flags and the tentative
\* timestamp
R_AppendFrame_stamp ==
  /\ platform = "windows"
  /\ ~R_terminated
  /\ R_ppc.pc = "idle"
  /\ R_supply.video > 0
  /\ R_supply' = [R_supply EXCEPT !.video = @ - 1]
  /\ R_ppc' = IF ~R_is_recording_ \/ ~R_accepting_queue_items_ THEN R_PIdle
              ELSE [pc |-> "lock", ts |-> R_video_frame_counter_ * FrameDuration]
  /\ UNCHANGED <<R_is_recording_, R_accepting_queue_items_, R_writer_running_,
                 R_audio_running_, R_queue_, R_video_queue_size_, R_audio_queue_size_,
                 R_video_frame_counter_, R_output_path_, R_writer_, R_writer_thread_,
                 R_audio_thread_, R_stop_thread_, R_cpc, R_wpc, R_apc, R_fpc,
                 R_ncalls, R_hist, R_terminated, L_vars, W_vars, T_vars, S_vars,
                 D_vars, Q_vars, V_vars, platform>>

\* an AppendFrame that pushes without looking at video_queue_size_
R_AppendFrame_lock_nocap ==
  /\ platform = "windows"
  /\ ~R_terminated
  /\ R_ppc.pc = "lock"
  /\ IF ~R_accepting_queue_items_ \/ ~R_writer_running_ \/ ~R_is_recording_
     THEN /\ R_ppc' = R_PIdle
          /\ UNCHANGED <<R_queue_, R_video_queue_size_, R_hist>>
     ELSE /\ R_queue_' = Append(R_queue_, [kind |-> "Video",
                                           presentation_time_100ns |-> R_ppc.ts])
          /\ R_video_queue_size_' = R_video_queue_size_ + 1
          /\ R_hist' = [R_hist EXCEPT !.offered = @ + 1, !.enq = Append(@, R_ppc.ts)]
          /\ R_ppc' = [R_ppc EXCEPT !.pc = "inc"]
  /\ UNCHANGED <<R_supply, R_is_recording_, R_accepting_queue_items_,
                 R_writer_running_, R_audio_running_, R_audio_queue_size_,
                 R_video_frame_counter_, R_output_path_, R_writer_, R_writer_thread_,
                 R_audio_thread_, R_stop_thread_, R_cpc, R_wpc, R_apc, R_fpc,
                 R_ncalls, R_terminated, L_vars, W_vars, T_vars, S_vars, D_vars,
                 Q_vars, V_vars, platform>>

\* under queue_mutex_: the flags again, the cap, push, fetch_add
R_AppendFrame_lock ==
  /\ platform = "windows"
  /\ ~R_terminated
  /\ R_ppc.pc = "lock"
  /\ IF ~R_accepting_queue_items_ \/ ~R_writer_running_ \/ ~R_is_recording_
     THEN /\ R_ppc' = R_PIdle
          /\ UNCHANGED <<R_queue_, R_video_queue_size_, R_hist>>
     ELSE IF R_video_queue_size_ >= kMaxVideoQueueItems
     THEN /\ R_ppc' = R_PIdle
          /\ R_hist' = [R_hist EXCEPT !.offered = @ + 1]
          /\ UNCHANGED <<R_queue_, R_video_queue_size_>>
     ELSE /\ R_queue_' = Append(R_queue_, [kind |-> "Video",
                                           presentation_time_100ns |-> R_ppc.ts])
          /\ R_video_queue_size_' = R_video_queue_size_ + 1
          /\ R_hist' = [R_hist EXCEPT !.offered = @ + 1, !.enq = Append(@, R_ppc.ts)]
          /\ R_ppc' = [R_ppc EXCEPT !.pc = "inc"]
  /\ UNCHANGED <<R_supply, R_is_recording_, R_accepting_queue_items_,
                 R_writer_running_, R_audio_running_, R_audio_queue_size_,
                 R_video_frame_counter_, R_output_path_, R_writer_, R_writer_thread_,
                 R_audio_thread_, R_stop_thread_, R_cpc, R_wpc, R_apc, R_fpc,
                 R_ncalls, R_terminated, L_vars, W_vars, T_vars, S_vars, D_vars,
                 Q_vars, V_vars, platform>>

\* ++video_frame_counter_, after the mutex was released
R_AppendFrame_inc ==
  /\ platform = "windows"
  /\ ~R_terminated
  /\ R_ppc.pc = "inc"
  /\ R_video_frame_counter_' = R_video_frame_counter_ + 1
  /\ R_ppc' = R_PIdle
  /\ UNCHANGED <<R_supply, R_is_recording_, R_accepting_queue_items_,
                 R_writer_running_, R_audio_running_, R_queue_, R_video_queue_size_,
                 R_audio_queue_size_, R_output_path_, R_writer_, R_writer_thread_,
                 R_audio_thread_, R_stop_thread_, R_cpc, R_wpc, R_apc, R_fpc,
                 R_ncalls, R_hist, R_terminated, L_vars, W_vars, T_vars, S_vars,
                 D_vars, Q_vars, V_vars, platform>>

\* RecordHandler::WriterLoop: the wait and what follows under queue_mutex_
R_WriterLoop_wait ==
  /\ platform = "windows"
  /\ ~R_terminated
  /\ R_wpc.pc = "wait"
  /\ R_queue_ # <<>> \/ ~R_writer_running_
  /\ IF ~R_writer_running_
     THEN /\ R_queue_' = <<>>
          /\ R_video_queue_size_' = 0
          /\ R_audio_queue_size_' = 0
          /\ R_wpc' = [R_wpc EXCEPT !.pc = "finalize"]
          /\ R_hist' = R_hist
     ELSE /\ R_queue_' = Tail(R_queue_)
          /\ R_wpc' = [pc |-> "write", kind |-> Head(R_queue_).kind]
          /\ R_hist' = [R_hist EXCEPT !.dequeued = @ + 1]
          /\ UNCHANGED <<R_video_queue_size_, R_audio_queue_size_>>
  /\ UNCHANGED <<R_supply, R_is_recording_, R_accepting_queue_items_,
                 R_writer_running_, R_audio_running_, R_video_frame_counter_,
                 R_output_path_, R_writer_, R_writer_thread_, R_audio_thread_,
                 R_stop_thread_, R_cpc, R_ppc, R_apc, R_fpc, R_ncalls, R_terminated,
                 L_vars, W_vars, T_vars, S_vars, D_vars, Q_vars, V_vars, platform>>

\* fetch_sub on the size of the item's kind, then WriteSample
R_WriterLoop_write ==
  /\ platform = "windows"
  /\ ~R_terminated
  /\ R_wpc.pc = "write"
  /\ IF R_wpc.kind = "Video"
     THEN /\ R_video_queue_size_' = R_video_queue_size_ - 1
          /\ R_audio_queue_size_' = R_audio_queue_size_
     ELSE /\ R_audio_queue_size_' = R_audio_queue_size_ - 1
          /\ R_video_queue_size_' = R_video_queue_size_
  /\ R_wpc' = [R_wpc EXCEPT !.pc = "wait"]
  /\ UNCHANGED <<R_supply, R_is_recording_, R_accepting_queue_items_,
                 R_writer_running_, R_audio_running_, R_queue_,
                 R_video_frame_counter_, R_output_path_, R_writer_, R_writer_thread_,
                 R_audio_thread_, R_stop_thread_, R_cpc, R_ppc, R_apc, R_fpc,
                 R_ncalls, R_hist, R_terminated, L_vars, W_vars, T_vars, S_vars,
                 D_vars, Q_vars, V_vars, platform>>

\* writer_->Finalize(), the thread ends
R_WriterLoop_finalize ==
  /\ platform = "windows"
  /\ ~R_terminated
  /\ R_wpc.pc = "finalize"
  /\ R_writer_' = "finalized"
  /\ R_hist' = [R_hist EXCEPT !.finalize[R_output_path_] = @ + 1]
  /\ R_wpc' = [R_wpc EXCEPT !.pc = "exited"]
  /\ UNCHANGED <<R_supply, R_is_recording_, R_accepting_queue_items_,
                 R_writer_running_, R_audio_running_, R_queue_, R_video_queue_size_,
                 R_audio_queue_size_, R_video_frame_counter_, R_output_path_,
                 R_writer_thread_, R_audio_thread_, R_stop_thread_, R_cpc, R_ppc,
                 R_apc, R_fpc, R_ncalls, R_terminated, L_vars, W_vars, T_vars, S_vars,
                 D_vars, Q_vars, V_vars, platform>>

\* RecordHandler::AudioLoop: the loop test and ReadSample, which returns a
\* sample or, after the Flush of Stop, nothing
R_AudioLoop_read ==
  /\ platform = "windows"
  /\ ~R_terminated
  /\ R_apc = "read"
  /\ IF ~R_audio_running_
     THEN /\ R_apc' = "exited"
          /\ R_supply' = R_supply
     ELSE /\ R_supply.audio > 0
          /\ R_supply' = [R_supply EXCEPT !.audio = @ - 1]
          /\ R_apc' = IF R_is_recording_ THEN "push" ELSE "read"
  /\ UNCHANGED <<R_is_recording_, R_accepting_queue_items_, R_writer_running_,
                 R_audio_running_, R_queue_, R_video_queue_size_, R_audio_queue_size_,
                 R_video_frame_counter_, R_output_path_, R_writer_, R_writer_thread_,
                 R_audio_thread_, R_stop_thread_, R_cpc, R_ppc, R_wpc, R_fpc,
                 R_ncalls, R_hist, R_terminated, L_vars, W_vars, T_vars, S_vars,
                 D_vars, Q_vars, V_vars, platform>>

\* under queue_mutex_: the flags, the cap, push, fetch_add
R_AudioLoop_push ==
  /\ platform = "windows"
  /\ ~R_terminated
  /\ R_apc = "push"
  /\ R_apc' = "read"
  /\ IF \/ ~R_accepting_queue_items_ \/ ~R_writer_running_ \/ ~R_is_recording_
        \/ R_audio_queue_size_ >= kMaxAudioQueueItems
     THEN UNCHANGED <<R_queue_, R_audio_queue_size_>>
     ELSE /\ R_queue_' = Append(R_queue_, [kind |-> "Audio", presentation_time_100ns |-> 0])
          /\ R_audio_queue_size_' = R_audio_queue_size_ + 1
  /\ UNCHANGED <<R_supply, R_is_recording_, R_accepting_queue_items_,
                 R_writer_running_, R_audio_running_, R_video_queue_size_,
                 R_video_frame_counter_, R_output_path_, R_writer_, R_writer_thread_,
                 R_audio_thread_, R_stop_thread_, R_cpc, R_ppc, R_wpc, R_fpc,
                 R_ncalls, R_hist, R_terminated, L_vars, W_vars, T_vars, S_vars,
                 D_vars, Q_vars, V_vars, platform>>

R_Lifecycle ==
  \/ R_Start_enter
  \/ R_Start_join
  \/ R_Start_open
  \/ R_Start_reset
  \/ R_Start_go
  \/ R_Stop

R_Threads ==
  \/ R_StopThread_join_audio
  \/ R_StopThread_join_writer
  \/ R_StopThread_clear
  \/ R_StopThread_on_done
  \/ R_WriterLoop_wait
  \/ R_WriterLoop_write
  \/ R_WriterLoop_finalize
  \/ R_AudioLoop_read
  \/ R_AudioLoop_push

R_AppendFrame ==
  \/ R_AppendFrame_stamp
  \/ R_AppendFrame_lock
  \/ R_AppendFrame_inc

(***************************************************************************)
(* Specifications                                                          *)
(***************************************************************************)
\* ---------------------------------------------------------------------------
\* The triple-buffer texture (camera_texture.cc, camera_texture.cpp)
\* ---------------------------------------------------------------------------

\* frame dimensions <<width, height>> the source can deliver
Dims == {<<1, 1>>, <<1, 2>>, <<2, 1>>}

\* required = width * height * 4
Required(d) == d[1] * d[2] * 4

T_NoData == [kind |-> "null", n |-> 0, d |-> <<0, 0>>]
T_Uninit == [kind |-> "uninit", n |-> 0, d |-> <<0, 0>>]
T_Zero == [kind |-> "zero", n |-> 0, d |-> <<0, 0>>]
T_Mixed == [kind |-> "mixed", n |-> 0, d |-> <<0, 0>>]
T_Partial(n, d) == [kind |-> "partial", n |-> n, d |-> d]
T_Frame(n, d) == [kind |-> "frame", n |-> n, d |-> d]

\* a buffer: alloc names the allocation (0: none), data what its bytes hold
T_NoBuffer == [alloc |-> 0, cap |-> 0, size |-> 0, data |-> T_NoData]
T_UIdle == [pc |-> "idle", wi |-> 0, n |-> 0, d |-> <<0, 0>>]
T_NotHeld == [got |-> FALSE, idx |-> 0, alloc |-> 0, data |-> T_NoData,
              width |-> 0, height |-> 0, done |-> 0]

\* camera_texture_init / the member initializers of CameraTexture
T_Init ==
  /\ T_buffers = [i \in 0..2 |-> T_NoBuffer]
  /\ T_write_idx = 0
  /\ T_read_idx = IF platform = "linux" THEN 1 ELSE 2
  /\ T_ready_idx = IF platform = "linux" THEN 2 ELSE 1
  /\ T_has_new_frame = FALSE
  /\ T_width = 0
  /\ T_height = 0
  /\ T_buffer_size = 0
  /\ T_upc = T_UIdle
  /\ T_held = T_NotHeld
  /\ T_count = [update |-> 0, done |-> 0, obtain |-> 0, locked |-> 0,
                last |-> <<0, 0>>]

\* g_free(buffers[i]); buffers[i] = g_malloc(required), during update n
T_Malloc(required, n) ==
  [alloc |-> n, cap |-> required, size |-> required, data |-> T_Uninit]

\* std::vector<uint8_t>::resize(required), during update n: a new allocation
\* when the capacity is exceeded, new bytes zeroed, bytes kept otherwise
T_Resize(b, required, n) ==
  LET kept == \/ required <= b.size
              \/ b.data.kind = "zero"
              \/ b.data.kind = "frame" /\ Required(b.data.d) <= b.size
  IN [alloc |-> IF required > b.cap THEN n ELSE b.alloc,
      cap |-> IF required > b.cap THEN required ELSE b.cap,
      size |-> required,
      data |-> IF b.size = 0 THEN T_Zero ELSE IF kept THEN b.data ELSE T_Mixed]

\* what the consumer is handed: the buffer, the dimensions reported
T_Handed(idx, buffers) ==
  [got |-> TRUE, idx |-> idx, alloc |-> buffers[idx].alloc, data |-> buffers[idx].data,
   width |-> T_width, height |-> T_height, done |-> T_count.done]

\* an update whose phase 3 moves ready to write without taking write to ready
camera_texture_update_phase3_noswap ==
  /\ platform = "linux"
  /\ T_upc.pc = "swap"
  /\ T_write_idx' = T_ready_idx
  /\ T_has_new_frame' = TRUE
  /\ T_count' = [T_count EXCEPT !.done = @ + 1, !.last = T_upc.d]
  /\ T_upc' = T_UIdle
  /\ UNCHANGED <<T_buffers, T_read_idx, T_ready_idx, T_width, T_height, T_buffer_size,
                 T_held, L_vars, W_vars, R_vars, S_vars, D_vars, Q_vars, V_vars,
                 platform>>

\* camera_texture_update, phase 1 (under the mutex)
camera_texture_update_phase1 ==
  /\ platform = "linux"
  /\ T_upc.pc = "idle"
  /\ T_count.update < MaxUpdates
  /\ \E d \in Dims :
       LET n == T_count.update + 1
           required == Required(d)
       IN /\ IF required # T_buffer_size
             THEN /\ T_buffers' = [i \in 0..2 |-> T_Malloc(required, n)]
                  /\ T_buffer_size' = required
                  /\ T_width' = d[1]
                  /\ T_height' = d[2]
             ELSE UNCHANGED <<T_buffers, T_buffer_size, T_width, T_height>>
          /\ T_upc' = [pc |-> "copy", wi |-> T_write_idx, n |-> n, d |-> d]
          /\ T_count' = [T_count EXCEPT !.update = n]
  /\ UNCHANGED <<T_write_idx, T_read_idx, T_ready_idx, T_has_new_frame, T_held,
                 L_vars, W_vars, R_vars, S_vars, D_vars, Q_vars, V_vars, platform>>

\* phase 2: memcpy(buffers[wi], data, required), no lock held; the copy is
\* under way, then complete
camera_texture_update_memcpy ==
  /\ platform = "linux"
  /\ T_upc.pc \in {"copy", "copying"}
  /\ IF T_upc.pc = "copy"
     THEN /\ T_buffers' = [T_buffers EXCEPT ![T_upc.wi].data = T_Partial(T_upc.n, T_upc.d)]
          /\ T_upc' = [T_upc EXCEPT !.pc = "copying"]
     ELSE /\ T_buffers' = [T_buffers EXCEPT ![T_upc.wi].data = T_Frame(T_upc.n, T_upc.d)]
          /\ T_upc' = [T_upc EXCEPT !.pc = "swap"]
  /\ UNCHANGED <<T_write_idx, T_read_idx, T_ready_idx, T_has_new_frame, T_width,
                 T_height, T_buffer_size, T_held, T_count, L_vars, W_vars, R_vars,
                 S_vars, D_vars, Q_vars, V_vars, platform>>

\* phase 3 (under the mutex): swap write and ready, has_new_frame
camera_texture_update_phase3 ==
  /\ platform = "linux"
  /\ T_upc.pc = "swap"
  /\ T_write_idx' = T_ready_idx
  /\ T_ready_idx' = T_write_idx
  /\ T_has_new_frame' = TRUE
  /\ T_count' = [T_count EXCEPT !.done = @ + 1, !.last = T_upc.d]
  /\ T_upc' = T_UIdle
  /\ UNCHANGED <<T_buffers, T_read_idx, T_width, T_height, T_buffer_size, T_held,
                 L_vars, W_vars, R_vars, S_vars, D_vars, Q_vars, V_vars, platform>>

\* camera_texture_copy_pixels_impl (under the mutex)
camera_texture_copy_pixels_impl ==
  /\ platform = "linux"
  /\ T_count.obtain < MaxObtain
  /\ T_count' = [T_count EXCEPT !.obtain = @ + 1]
  /\ IF T_width = 0 \/ T_height = 0 \/ T_buffers[T_read_idx].alloc = 0
     THEN /\ T_held' = T_NotHeld
          /\ UNCHANGED <<T_read_idx, T_ready_idx, T_has_new_frame>>
     ELSE LET idx == IF T_has_new_frame THEN T_ready_idx ELSE T_read_idx
          IN /\ T_read_idx' = idx
             /\ T_ready_idx' = IF T_has_new_frame THEN T_read_idx ELSE T_ready_idx
             /\ T_has_new_frame' = FALSE
             /\ T_held' = T_Handed(idx, T_buffers)
  /\ UNCHANGED <<T_buffers, T_write_idx, T_width, T_height, T_buffer_size, T_upc,
                 L_vars, W_vars, R_vars, S_vars, D_vars, Q_vars, V_vars, platform>>

\* CameraTexture::Update (all of it under mutex_, the memcpy included:
\* T_count.locked counts the copies made with the mutex held)
Update ==
  /\ platform = "windows"
  /\ T_count.update < MaxUpdates
  /\ \E d \in Dims :
       LET n == T_count.update + 1
           required == Required(d)
           changed == d[1] # T_width \/ d[2] # T_height
           bufs == IF changed THEN [i \in 0..2 |-> T_Resize(T_buffers[i], required, n)]
                   ELSE T_buffers
       IN /\ T_buffers' = [bufs EXCEPT ![T_write_idx].data = T_Frame(n, d)]
          /\ T_width' = d[1]
          /\ T_height' = d[2]
          /\ T_count' = [T_count EXCEPT !.update = n, !.done = n, !.locked = @ + 1,
                                        !.last = d]
  /\ T_write_idx' = T_ready_idx
  /\ T_ready_idx' = T_write_idx
  /\ T_has_new_frame' = TRUE
  /\ UNCHANGED <<T_read_idx, T_buffer_size, T_upc, T_held, L_vars, W_vars, R_vars,
                 S_vars, D_vars, Q_vars, V_vars, platform>>

\* CameraTexture::ObtainPixelBuffer (under mutex_)
ObtainPixelBuffer ==
  /\ platform = "windows"
  /\ T_count.obtain < MaxObtain
  /\ T_count' = [T_count EXCEPT !.obtain = @ + 1]
  /\ IF T_width = 0 \/ T_height = 0
     THEN /\ T_held' = T_NotHeld
          /\ UNCHANGED <<T_read_idx, T_ready_idx, T_has_new_frame>>
     ELSE LET idx == IF T_has_new_frame THEN T_ready_idx ELSE T_read_idx
          IN /\ T_read_idx' = idx
             /\ T_ready_idx' = IF T_has_new_frame THEN T_read_idx ELSE T_ready_idx
             /\ T_has_new_frame' = FALSE
             /\ T_held' = T_Handed(idx, T_buffers)
  /\ UNCHANGED <<T_buffers, T_write_idx, T_width, T_height, T_buffer_size, T_upc,
                 L_vars, W_vars, R_vars, S_vars, D_vars, Q_vars, V_vars, platform>>

\* ---------------------------------------------------------------------------
\* The threads of the Windows image stream (camera.cpp, "Image stream")
\* ---------------------------------------------------------------------------

\* the member initializers of Camera (camera.h)
S_Init ==
  /\ S_image_streaming_ = FALSE
  /\ S_image_stream_running_ = FALSE
  /\ S_image_stream_thread_ = FALSE
  /\ S_image_stream_join_thread_ = FALSE
  /\ S_lpc = "none"
  /\ S_jpc = "none"
  /\ S_live = 0
  /\ S_last = "none"
  /\ S_prev = "none"
  /\ S_count = 0

\* a StopImageStream that leaves image_streaming_ as it is
S_StopImageStream_keep ==
  /\ platform = "windows"
  /\ S_count < MaxToggle
  /\ S_count' = S_count + 1
  /\ S_last' = "stop"
  /\ S_prev' = S_last
  /\ S_image_stream_running_' = FALSE
  /\ IF S_image_stream_thread_ /\ ~S_image_stream_join_thread_
     THEN /\ S_image_stream_join_thread_' = TRUE
          /\ S_jpc' = "running"
     ELSE UNCHANGED <<S_image_stream_join_thread_, S_jpc>>
  /\ UNCHANGED <<S_image_streaming_, S_image_stream_thread_, S_lpc, S_live, L_vars,
                 W_vars, R_vars, T_vars, D_vars, Q_vars, V_vars, platform>>

\* Camera::StartImageStream, under image_stream_thread_mutex_; the join of
\* image_stream_join_thread_ returns once that thread has ended
S_StartImageStream ==
  /\ platform = "windows"
  /\ S_count < MaxToggle
  /\ S_image_stream_join_thread_ => S_jpc = "done"
  /\ S_count' = S_count + 1
  /\ S_last' = "start"
  /\ S_prev' = S_last
  /\ S_image_stream_join_thread_' = FALSE
  /\ S_jpc' = "none"
  /\ IF S_image_stream_thread_
     THEN UNCHANGED <<S_image_stream_running_, S_image_streaming_,
                      S_image_stream_thread_, S_lpc, S_live>>
     ELSE /\ S_image_stream_running_' = TRUE
          /\ S_image_streaming_' = TRUE
          /\ S_image_stream_thread_' = TRUE
          /\ S_lpc' = "running"
          /\ S_live' = S_live + 1
  /\ UNCHANGED <<L_vars, W_vars, R_vars, T_vars, D_vars, Q_vars, V_vars, platform>>

\* Camera::StopImageStream
S_StopImageStream ==
  /\ platform = "windows"
  /\ S_count < MaxToggle
  /\ S_count' = S_count + 1
  /\ S_last' = "stop"
  /\ S_prev' = S_last
  /\ S_image_streaming_' = FALSE
  /\ S_image_stream_running_' = FALSE
  /\ IF S_image_stream_thread_ /\ ~S_image_stream_join_thread_
     THEN /\ S_image_stream_join_thread_' = TRUE
          /\ S_jpc' = "running"
     ELSE UNCHANGED <<S_image_stream_join_thread_, S_jpc>>
  /\ UNCHANGED <<S_image_stream_thread_, S_lpc, S_live, L_vars, W_vars, R_vars,
                 T_vars, D_vars, Q_vars, V_vars, platform>>

\* Camera::ImageStreamLoop: image_stream_running_ is seen false, the thread ends
S_ImageStreamLoop_exit ==
  /\ platform = "windows"
  /\ S_lpc = "running"
  /\ ~S_image_stream_running_
  /\ S_lpc' = "exited"
  /\ S_live' = S_live - 1
  /\ UNCHANGED <<S_image_streaming_, S_image_stream_running_, S_image_stream_thread_,
                 S_image_stream_join_thread_, S_jpc, S_last, S_prev, S_count, L_vars,
                 W_vars, R_vars, T_vars, D_vars, Q_vars, V_vars, platform>>

\* the thread StopImageStream starts: image_stream_thread_.join(), then
\* image_stream_thread_ = std::thread{}
S_JoinThread ==
  /\ platform = "windows"
  /\ S_jpc = "running"
  /\ S_image_stream_thread_ => S_lpc = "exited"
  /\ S_image_stream_thread_' = FALSE
  /\ S_lpc' = "none"
  /\ S_jpc' = "done"
  /\ UNCHANGED <<S_image_streaming_, S_image_stream_running_,
                 S_image_stream_join_thread_, S_live, S_last, S_prev, S_count, L_vars,
                 W_vars, R_vars, T_vars, D_vars, Q_vars, V_vars, platform>>

(***************************************************************************)
(* Teardown against the producer: Dispose racing a frame callback that     *)
(* paints the texture and posts the frame into the shared stream buffer    *)
(***************************************************************************)
D_Resources == {"texture", "buffer"}

\* image_stream_buffer_ == nullptr
D_NoBlock == [live |-> FALSE, size |-> 0, ready |-> 0, content |-> "none", sequence |-> 0]

\* malloc(total_size): nothing in the block is initialised, ready included
D_Malloc(size, ready) ==
  [live |-> TRUE, size |-> size, ready |-> ready, content |-> "none", sequence |-> 0]

D_SIdle == [pc |-> "idle", size |-> 0, cb |-> FALSE]

\* a running session: the first frame has arrived, the texture is
\* registered, no stream buffer yet, sequence 0; a command may still wait for
\* its completion and a recording may be active
D_Init(pending, recording) ==
  /\ D_state_ = "Running"
  /\ D_pending = pending
  /\ D_recording = recording
  /\ D_producer = "running"
  /\ D_image_streaming_ = FALSE
  /\ D_image_stream_callback_ = FALSE
  /\ D_buffer = D_NoBlock
  /\ D_image_stream_sequence_ = 0
  /\ D_texture_ = TRUE
  /\ D_ffi_mutex = "free"
  /\ D_dpc = "idle"
  /\ D_spc = D_SIdle
  /\ D_hist = [log |-> <<>>, late |-> {}, rung_late |-> FALSE, freed |-> FALSE,
               delivered |-> <<>>, calls |-> 0, frames |-> 0, ctl |-> 0]

D_Log(step) == [D_hist EXCEPT !.log = Append(@, step)]

\* the producer touches resource r: late when Dispose released it before
D_Touch(h, r) ==
  IF (r = "texture" /\ ~D_texture_) \/ (r = "buffer" /\ h.freed)
  THEN [h EXCEPT !.late = @ \cup {r}]
  ELSE h

\* a control call after which the numbering starts again
D_Control_restart(op) ==
  /\ D_state_ = "Running"
  /\ D_hist.ctl < MaxControl
  /\ D_spc.pc = "idle"
  /\ D_image_streaming_' = (op = "start" \/ (op # "stop" /\ D_image_streaming_))
  /\ D_image_stream_callback_' = (op = "register" \/ (op # "unregister" /\ D_image_stream_callback_))
  /\ D_image_stream_sequence_' = 0
  /\ D_hist' = [D_hist EXCEPT !.ctl = @ + 1]
  /\ UNCHANGED <<D_state_, D_pending, D_recording, D_producer, D_buffer, D_texture_,
                 D_ffi_mutex, D_dpc, D_spc, L_vars, W_vars, R_vars, T_vars, S_vars,
                 Q_vars, V_vars, platform>>

\* the control thread: StartImageStream, StopImageStream,
\* RegisterImageStreamCallback, UnregisterImageStreamCallback (the last two
\* under image_stream_ffi_mutex_ in the Media Foundation variant)
D_Control(op) ==
  /\ D_state_ = "Running"
  /\ D_hist.ctl < MaxControl
  /\ op \in {"register", "unregister"} /\ platform = "windows" => D_ffi_mutex = "free"
  /\ D_image_streaming_' = CASE op = "start" -> TRUE
                             [] op = "stop" -> FALSE
                             [] OTHER -> D_image_streaming_
  /\ D_image_stream_callback_' = CASE op = "register" -> TRUE
                                   [] op = "unregister" -> FALSE
                                   [] OTHER -> D_image_stream_callback_
  /\ D_hist' = [D_hist EXCEPT !.ctl = @ + 1]
  /\ UNCHANGED <<D_state_, D_pending, D_recording, D_producer, D_buffer,
                 D_image_stream_sequence_, D_texture_, D_ffi_mutex, D_dpc, D_spc,
                 L_vars, W_vars, R_vars, T_vars, S_vars, Q_vars, V_vars, platform>>

\* the writes into the shared block, the same statements in both variants:
\* grow the block, ready = 0, the pixels, the metadata with
\* ++image_stream_sequence_ (the number the frame is delivered with),
\* ready = 1
D_WriteBlock(next) ==
  CASE D_spc.pc = "realloc" ->
         /\ IF D_buffer.size < D_spc.size
            THEN \E r \in {0, 1} : D_buffer' = D_Malloc(D_spc.size, r)
            ELSE D_buffer' = D_buffer
         /\ D_hist' = D_Touch(D_hist, "buffer")
         /\ D_spc' = [D_spc EXCEPT !.pc = "ready0"]
         /\ UNCHANGED D_image_stream_sequence_
    [] D_spc.pc = "ready0" ->
         /\ D_buffer' = [D_buffer EXCEPT !.ready = 0]
         /\ D_hist' = D_Touch(D_hist, "buffer")
         /\ D_spc' = [D_spc EXCEPT !.pc = "copy"]
         /\ UNCHANGED D_image_stream_sequence_
    [] D_spc.pc = "copy" ->
         /\ D_buffer' = [D_buffer EXCEPT !.content = "pixels"]
         /\ D_hist' = D_Touch(D_hist, "buffer")
         /\ D_spc' = [D_spc EXCEPT !.pc = "meta"]
         /\ UNCHANGED D_image_stream_sequence_
    [] D_spc.pc = "meta" ->
         /\ D_image_stream_sequence_' = D_image_stream_sequence_ + 1
         /\ D_buffer' = [D_buffer EXCEPT !.content = "frame",
                                         !.sequence = D_image_stream_sequence_ + 1]
         /\ D_hist' = [D_Touch(D_hist, "buffer") EXCEPT
                         !.delivered = Append(@, D_image_stream_sequence_ + 1)]
         /\ D_spc' = [D_spc EXCEPT !.pc = "ready1"]
    [] D_spc.pc = "ready1" ->
         /\ D_buffer' = [D_buffer EXCEPT !.ready = 1]
         /\ D_hist' = D_Touch(D_hist, "buffer")
         /\ D_spc' = [D_spc EXCEPT !.pc = next]
         /\ UNCHANGED D_image_stream_sequence_

D_Writing == D_spc.pc \in {"copy", "meta", "ready1"}

\* cb(camera_id_): the doorbell rings
D_Ring ==
  /\ D_hist' = [D_hist EXCEPT !.rung_late = @ \/ D_hist.freed]
  /\ D_spc' = D_SIdle

\* GStreamer variant: Camera::OnNewSample on the streaming thread
D_OnNewSample ==
  /\ platform = "linux"
  /\ CASE D_spc.pc = "idle" ->
            /\ D_producer = "running"
            /\ D_hist.frames < MaxPosts
            /\ \E size \in D_Sizes : D_spc' = [D_SIdle EXCEPT !.pc = "texture", !.size = size]
            /\ D_hist' = [D_hist EXCEPT !.frames = @ + 1]
            /\ UNCHANGED <<D_buffer, D_image_stream_sequence_>>
       [] D_spc.pc = "texture" ->
            /\ D_hist' = D_Touch(D_hist, "texture")
            /\ D_spc' = [D_spc EXCEPT !.pc = "stream"]
            /\ UNCHANGED <<D_buffer, D_image_stream_sequence_>>
       [] D_spc.pc = "stream" ->
            /\ D_spc' = IF D_image_streaming_ /\ D_image_stream_callback_
                        THEN [D_spc EXCEPT !.pc = "realloc", !.cb = TRUE]
                        ELSE D_SIdle
            /\ UNCHANGED <<D_buffer, D_image_stream_sequence_, D_hist>>
       [] D_spc.pc \in {"realloc", "ready0", "copy", "meta", "ready1"} ->
            D_WriteBlock("ring")
       [] D_spc.pc = "ring" ->
            /\ D_Ring
            /\ UNCHANGED <<D_buffer, D_image_stream_sequence_>>
  /\ UNCHANGED <<D_state_, D_pending, D_recording, D_producer, D_image_streaming_,
                 D_image_stream_callback_, D_texture_, D_ffi_mutex, D_dpc, L_vars,
                 W_vars, R_vars, T_vars, S_vars, Q_vars, V_vars, platform>>

\* Media Foundation variant: Camera::OnPreviewSample on the MF thread, with
\* PostImageStreamFrame: the block is written under image_stream_ffi_mutex_,
\* cb(camera_id_) is called after the mutex is released
D_OnPreviewSample ==
  /\ platform = "windows"
  /\ CASE D_spc.pc = "idle" ->
            /\ D_producer = "running"
            /\ D_hist.frames < MaxPosts
            /\ \E size \in D_Sizes :
                 D_spc' = IF D_state_ \in {"Disposing", "Disposed"} THEN D_SIdle
                          ELSE [D_SIdle EXCEPT !.pc = "texture", !.size = size]
            /\ D_hist' = [D_hist EXCEPT !.frames = @ + 1]
            /\ UNCHANGED <<D_buffer, D_image_stream_sequence_, D_ffi_mutex>>
       [] D_spc.pc = "texture" ->
            /\ D_hist' = D_Touch(D_hist, "texture")
            /\ D_spc' = [D_spc EXCEPT !.pc = "stream"]
            /\ UNCHANGED <<D_buffer, D_image_stream_sequence_, D_ffi_mutex>>
       [] D_spc.pc = "stream" ->
            /\ D_spc' = IF D_image_streaming_ THEN [D_spc EXCEPT !.pc = "lock"]
                        ELSE D_SIdle
            /\ UNCHANGED <<D_buffer, D_image_stream_sequence_, D_hist, D_ffi_mutex>>
       [] D_spc.pc = "lock" ->
            /\ D_ffi_mutex = "free"
            /\ IF D_image_stream_callback_
               THEN /\ D_ffi_mutex' = "producer"
                    /\ D_spc' = [D_spc EXCEPT !.pc = "realloc"]
               ELSE /\ D_ffi_mutex' = "free"
                    /\ D_spc' = D_SIdle
            /\ UNCHANGED <<D_buffer, D_image_stream_sequence_, D_hist>>
       [] D_spc.pc \in {"realloc", "ready0", "copy", "meta", "ready1"} ->
            /\ D_WriteBlock("unlock")
            /\ UNCHANGED D_ffi_mutex
       [] D_spc.pc = "unlock" ->
            /\ D_spc' = [D_spc EXCEPT !.pc = "ring", !.cb = D_image_stream_callback_]
            /\ D_ffi_mutex' = "free"
            /\ UNCHANGED <<D_buffer, D_image_stream_sequence_, D_hist>>
       [] D_spc.pc = "ring" ->
            /\ D_Ring
            /\ UNCHANGED <<D_buffer, D_image_stream_sequence_, D_ffi_mutex>>
  /\ UNCHANGED <<D_state_, D_pending, D_recording, D_producer, D_image_streaming_,
                 D_image_stream_callback_, D_texture_, D_dpc, L_vars, W_vars, R_vars,
                 T_vars, S_vars, Q_vars, V_vars, platform>>

\* a teardown that marks the session Disposed at once
D_Dispose_mark_first ==
  /\ platform = "linux"
  /\ D_dpc = "idle"
  /\ D_hist.calls < MaxTeardown
  /\ D_state_' = "Disposed"
  /\ D_hist' = [D_Log("disposed") EXCEPT !.calls = @ + 1]
  /\ UNCHANGED <<D_pending, D_recording, D_producer, D_image_streaming_,
                 D_image_stream_callback_, D_buffer, D_image_stream_sequence_,
                 D_texture_, D_ffi_mutex, D_dpc, D_spc, L_vars, W_vars, R_vars,
                 T_vars, S_vars, Q_vars, V_vars, platform>>

\* GStreamer variant: Camera::Dispose on the control thread.
\* gst_element_set_state(pipeline_, GST_STATE_NULL) returns once the
\* streaming thread has left OnNewSample; it stops the recording branch of
\* the pipeline with the rest
D_Dispose ==
  /\ platform = "linux"
  /\ CASE D_dpc = "idle" ->
            /\ D_hist.calls < MaxTeardown
            /\ D_state_' = "Disposing"
            /\ D_dpc' = IF D_state_ \in {"Disposed", "Disposing"} THEN "idle" ELSE "pending"
            /\ D_hist' = [D_hist EXCEPT !.calls = @ + 1]
            /\ UNCHANGED <<D_pending, D_image_stream_callback_, D_producer, D_recording,
                           D_buffer, D_texture_>>
       [] D_dpc = "pending" ->
            /\ D_pending' = FALSE
            /\ D_hist' = IF D_pending THEN D_Log("fail_pending") ELSE D_hist
            /\ D_dpc' = "callback"
            /\ UNCHANGED <<D_state_, D_image_stream_callback_, D_producer, D_recording,
                           D_buffer, D_texture_>>
       [] D_dpc = "callback" ->
            /\ D_image_stream_callback_' = FALSE
            /\ D_hist' = D_Log("clear_callback")
            /\ D_dpc' = "pipeline"
            /\ UNCHANGED <<D_state_, D_pending, D_producer, D_recording, D_buffer,
                           D_texture_>>
       [] D_dpc = "pipeline" ->
            /\ D_spc.pc = "idle"
            /\ D_producer' = "stopped"
            /\ D_recording' = FALSE
            /\ D_hist' = D_Log("stop_producer")
            /\ D_dpc' = "buffer"
            /\ UNCHANGED <<D_state_, D_pending, D_image_stream_callback_, D_buffer,
                           D_texture_>>
       [] D_dpc = "buffer" ->
            /\ D_buffer' = D_NoBlock
            /\ D_hist' = [D_Log("free_buffer") EXCEPT !.freed = TRUE]
            /\ D_dpc' = "texture"
            /\ UNCHANGED <<D_state_, D_pending, D_image_stream_callback_, D_producer,
                           D_recording, D_texture_>>
       [] D_dpc = "texture" ->
            /\ D_texture_' = FALSE
            /\ D_hist' = D_Log("unregister_texture")
            /\ D_dpc' = "closing"
            /\ UNCHANGED <<D_state_, D_pending, D_image_stream_callback_, D_producer,
                           D_recording, D_buffer>>
       [] D_dpc = "closing" ->
            /\ D_hist' = D_Log("cameraClosing")
            /\ D_dpc' = "store"
            /\ UNCHANGED <<D_state_, D_pending, D_image_stream_callback_, D_producer,
                           D_recording, D_buffer, D_texture_>>
       [] D_dpc = "store" ->
            /\ D_state_' = "Disposed"
            /\ D_hist' = D_Log("disposed")
            /\ D_dpc' = "idle"
            /\ UNCHANGED <<D_pending, D_image_stream_callback_, D_producer, D_recording,
                           D_buffer, D_texture_>>
  /\ UNCHANGED <<D_image_streaming_, D_image_stream_sequence_, D_ffi_mutex, D_spc,
                 L_vars, W_vars, R_vars, T_vars, S_vars, Q_vars, V_vars, platform>>

\* Media Foundation variant: Camera::DisposeAsync claims the teardown under
\* state_mutex_ and starts DisposeInternal on dispose_thread_
D_DisposeAsync ==
  /\ platform = "windows"
  /\ D_hist.calls < MaxTeardown
  /\ D_hist' = [D_hist EXCEPT !.calls = @ + 1]
  /\ IF D_state_ \in {"Disposed", "Disposing"}
     THEN UNCHANGED <<D_state_, D_dpc>>
     ELSE D_state_' = "Disposing" /\ D_dpc' = "pending"
  /\ UNCHANGED <<D_pending, D_recording, D_producer, D_image_streaming_,
                 D_image_stream_callback_, D_buffer, D_image_stream_sequence_,
                 D_texture_, D_ffi_mutex, D_spc, L_vars, W_vars, R_vars, T_vars,
                 S_vars, Q_vars, V_vars, platform>>

\* Media Foundation variant: Camera::DisposeInternal on dispose_thread_.
\* StopPreview() asks the engine to stop and does not wait for a sample
\* callback that is running
D_DisposeInternal ==
  /\ platform = "windows"
  /\ D_dpc \notin {"idle", "done"}
  /\ CASE D_dpc = "pending" ->
            /\ D_pending' = FALSE
            /\ D_hist' = IF D_pending THEN D_Log("fail_pending") ELSE D_hist
            /\ D_dpc' = "record"
            /\ UNCHANGED <<D_state_, D_recording, D_producer, D_image_streaming_,
                           D_image_stream_callback_, D_buffer, D_texture_, D_ffi_mutex>>
       [] D_dpc = "record" ->
            /\ D_recording' = FALSE
            /\ D_hist' = IF D_recording THEN D_Log("stop_recording") ELSE D_hist
            /\ D_dpc' = "preview"
            /\ UNCHANGED <<D_state_, D_pending, D_producer, D_image_streaming_,
                           D_image_stream_callback_, D_buffer, D_texture_, D_ffi_mutex>>
       [] D_dpc = "preview" ->
            /\ D_producer' = "stopped"
            /\ D_hist' = D_Log("stop_producer")
            /\ D_dpc' = "stream"
            /\ UNCHANGED <<D_state_, D_pending, D_recording, D_image_streaming_,
                           D_image_stream_callback_, D_buffer, D_texture_, D_ffi_mutex>>
       [] D_dpc = "stream" ->
            /\ D_image_streaming_' = FALSE
            /\ D_hist' = D_hist
            /\ D_dpc' = "buffer"
            /\ UNCHANGED <<D_state_, D_pending, D_recording, D_producer,
                           D_image_stream_callback_, D_buffer, D_texture_, D_ffi_mutex>>
       [] D_dpc = "buffer" ->
            /\ D_ffi_mutex = "free"
            /\ D_image_stream_callback_' = FALSE
            /\ D_buffer' = D_NoBlock
            /\ D_hist' = [D_hist EXCEPT !.log = @ \o <<"clear_callback", "free_buffer">>,
                                        !.freed = TRUE]
            /\ D_dpc' = "texture"
            /\ UNCHANGED <<D_state_, D_pending, D_recording, D_producer,
                           D_image_streaming_, D_texture_, D_ffi_mutex>>
       [] D_dpc = "texture" ->
            /\ D_texture_' = FALSE
            /\ D_hist' = D_Log("unregister_texture")
            /\ D_dpc' = "closing"
            /\ UNCHANGED <<D_state_, D_pending, D_recording, D_producer,
                           D_image_streaming_, D_image_stream_callback_, D_buffer,
                           D_ffi_mutex>>
       [] D_dpc = "closing" ->
            /\ D_hist' = D_Log("cameraClosing")
            /\ D_dpc' = "store"
            /\ UNCHANGED <<D_state_, D_pending, D_recording, D_producer,
                           D_image_streaming_, D_image_stream_callback_, D_buffer,
                           D_texture_, D_ffi_mutex>>
       [] D_dpc = "store" ->
            /\ D_state_' = "Disposed"
            /\ D_hist' = D_Log("disposed")
            /\ D_dpc' = "done"
            /\ UNCHANGED <<D_pending, D_recording, D_producer, D_image_streaming_,
                           D_image_stream_callback_, D_buffer, D_texture_, D_ffi_mutex>>
  /\ UNCHANGED <<D_image_stream_sequence_, D_spc, L_vars, W_vars, R_vars, T_vars,
                 S_vars, Q_vars, V_vars, platform>>

(***************************************************************************)
(* GStreamer variant: the tee feeding the preview branch and rec_queue      *)
(***************************************************************************)
\* a recording is running, with or without the audio branch
Q_Init(has_audio) ==
  /\ Q_level = 0
  /\ Q_tpc = "idle"
  /\ Q_count = [taken |-> 0, preview |-> 0]
  /\ Q_stop = [pc |-> "idle", has_audio_ |-> has_audio, log |-> <<>>]

\* RecordHandler::StopRecording on the main loop, is_recording_ being true:
\* the probe on the sink pad of the filesink, the EOS into the valve, the
\* valve closed; with audio, the audio valve closed, the EOS into the audio
\* encoder
Q_StopRecording ==
  /\ platform = "linux"
  /\ Q_stop.pc # "done"
  /\ LET step == CASE Q_stop.pc = "idle" -> <<"probe", "eos">>
                    [] Q_stop.pc = "eos" -> <<"eos_video", "valve">>
                    [] Q_stop.pc = "valve" ->
                         <<"close_video", IF Q_stop.has_audio_ THEN "audio_valve" ELSE "done">>
                    [] Q_stop.pc = "audio_valve" -> <<"close_audio", "audio_eos">>
                    [] Q_stop.pc = "audio_eos" -> <<"eos_audio", "done">>
     IN Q_stop' = [Q_stop EXCEPT !.pc = step[2], !.log = Append(@, step[1])]
  /\ UNCHANGED <<Q_level, Q_tpc, Q_count, L_vars, W_vars, R_vars, T_vars, S_vars,
                 D_vars, V_vars, platform>>

\* the streaming thread of the source hands a frame to the tee, which
\* pushes it to preview_queue and to rec_queue in turn; rec_queue is
\* leaky=0, so the push into it waits while the queue is full
Q_TeeChain ==
  /\ platform = "linux"
  /\ CASE Q_tpc = "idle" ->
            /\ Q_count.taken < MaxTee
            /\ Q_count' = [Q_count EXCEPT !.taken = @ + 1]
            /\ Q_tpc' = "preview"
            /\ UNCHANGED Q_level
       [] Q_tpc = "preview" ->
            /\ Q_count' = [Q_count EXCEPT !.preview = @ + 1]
            /\ Q_tpc' = "rec"
            /\ UNCHANGED Q_level
       [] Q_tpc = "rec" ->
            /\ Q_level < MaxRecQueue
            /\ Q_level' = Q_level + 1
            /\ Q_tpc' = "idle"
            /\ UNCHANGED Q_count
  /\ UNCHANGED <<Q_stop, L_vars, W_vars, R_vars, T_vars, S_vars, D_vars, V_vars,
                 platform>>

\* the recording branch (valve, videoconvert, encoder, muxer, filesink)
\* takes a frame from rec_queue, when the encoder gets to it
Q_Encode ==
  /\ platform = "linux"
  /\ Q_level > 0
  /\ Q_level' = Q_level - 1
  /\ UNCHANGED <<Q_tpc, Q_count, Q_stop, L_vars, W_vars, R_vars, T_vars, S_vars,
                 D_vars, V_vars, platform>>

(***************************************************************************)
(* Media Foundation variant: the loops that wait on a condition variable   *)
(***************************************************************************)
Loops == {"stream", "writer"}

\* both loops are running and have nothing to do
V_Init ==
  V_loop = [i \in Loops |-> [running |-> TRUE, work |-> 0, wpc |-> "top",
                             spc |-> "idle", posted |-> 0]]

\* the loop takes the mutex only to test the predicate and to wait
V_HoldsMutex(i) == V_loop[i].wpc = "park"

\* PostImageStreamFrame (the slot made dirty) and AppendFrame / AudioLoop
\* (an item pushed), under the mutex of the loop, then notify_one
V_Post(i) ==
  /\ platform = "windows"
  /\ V_loop[i].posted < MaxWork
  /\ V_loop[i].running
  /\ ~V_HoldsMutex(i)
  /\ V_loop' = [V_loop EXCEPT ![i].work = IF i = "stream" THEN 1 ELSE @ + 1,
                              ![i].posted = @ + 1,
                              ![i].wpc = IF @ = "waiting" THEN "pred" ELSE @]
  /\ UNCHANGED <<L_vars, W_vars, R_vars, T_vars, S_vars, D_vars, Q_vars, platform>>

\* ImageStreamLoop and WriterLoop: the loop test, the predicate of
\* cv.wait(lk, pred) evaluated with the mutex held, the wait itself when the
\* predicate was false, and what follows the wait
V_Wait(i) ==
  /\ platform = "windows"
  /\ CASE V_loop[i].wpc = "top" ->
              V_loop' = [V_loop EXCEPT ![i].wpc =
                           IF i = "stream" /\ ~V_loop[i].running THEN "exited" ELSE "pred"]
       [] V_loop[i].wpc = "pred" ->
              V_loop' = [V_loop EXCEPT ![i].wpc =
                           IF V_loop[i].work > 0 \/ ~V_loop[i].running THEN "after"
                           ELSE "park"]
       [] V_loop[i].wpc = "park" ->
              V_loop' = [V_loop EXCEPT ![i].wpc = "waiting"]
       [] V_loop[i].wpc = "after" ->
              V_loop' = IF ~V_loop[i].running
                        THEN [V_loop EXCEPT ![i].wpc = "exited", ![i].work = 0]
                        ELSE [V_loop EXCEPT ![i].wpc = "top", ![i].work = @ - 1]
       [] OTHER -> FALSE
  /\ UNCHANGED <<L_vars, W_vars, R_vars, T_vars, S_vars, D_vars, Q_vars, platform>>

\* StopImageStream and RecordHandler::Stop: the flag is stored without the
\* mutex of the loop, then notify_all
V_Stop(i) ==
  /\ platform = "windows"
  /\ CASE V_loop[i].spc = "idle" ->
              V_loop' = [V_loop EXCEPT ![i].running = FALSE, ![i].spc = "notify"]
       [] V_loop[i].spc = "notify" ->
              V_loop' = [V_loop EXCEPT ![i].spc = "done",
                                       ![i].wpc = IF @ = "waiting" THEN "pred" ELSE @]
       [] OTHER -> FALSE
  /\ UNCHANGED <<L_vars, W_vars, R_vars, T_vars, S_vars, D_vars, Q_vars, platform>>

Init ==
  /\ platform \in {"linux", "windows"}
  /\ L_Init
  /\ W_Init
  /\ R_Init(R_NoSupply)
  /\ T_Init
  /\ S_Init
  /\ D_Init(FALSE, FALSE)
  /\ Q_Init(FALSE)
  /\ V_Init

\* a session and its preview control, Dispose from the control thread
Next == L_Session \/ L_Preview \/ W_Session \/ W_Preview

Spec == Init /\ [][Next]_vars

\* a session with every command that can stay pending
NextPending ==
  \/ L_Session \/ L_Photo \/ L_StartVideoRecording \/ L_StopRecord
  \/ W_Session \/ W_Photo \/ W_StartRecord \/ W_StopRecord

SpecPending == Init /\ [][NextPending]_vars

\* a session with Dispose called from two threads
NextDispose == L_Session \/ L_Dispose("other") \/ W_Session \/ W_DisposeAsync("other")

SpecDispose == Init /\ [][NextDispose]_vars

\* the steps of calls and threads that have started: the main loop finishes
\* the handler it runs, a streaming thread finishes its sample, the detached
\* threads run on, Dispose goes on once called.  No command has to be
\* issued and no frame or event has to arrive.
L_Progress ==
  \/ L_Initialize_store \/ L_Initialize_build \/ L_Initialize_failed
  \/ L_OnInitTimeout_stop \/ L_OnBusMessage_error_store
  \/ \E p \in PipeIds : L_OnNewSample_store(p) \/ L_OnNewSample_texture(p)
                          \/ L_OnNewSample_stream(p)
  \/ \E d \in DisposeCallers : L_Dispose_pending(d) \/ L_Dispose_pipeline(d)
                                 \/ L_Dispose_release(d) \/ L_Dispose_store(d)

W_Progress ==
  \/ \E n \in Attempts : W_InitThread_create(n) \/ W_InitThread_fail(n)
                           \/ W_InitThread_arm(n)
                           \/ W_TimeoutThread_wake(n) \/ W_TimeoutThread_fail(n)
  \/ W_OnPreviewSample_first \/ W_OnPreviewSample_respond \/ W_OnEngineEvent_fail
  \/ W_DisposeInternal_cancel \/ W_DisposeInternal_fail
  \/ W_DisposeInternal_release \/ W_DisposeInternal_callbacks

SpecDisposeFair == SpecDispose /\ WF_vars(L_Progress) /\ WF_vars(W_Progress)

\* a session with preview control, the image stream and a recording
NextFrames ==
  \/ L_Session \/ L_Preview \/ L_StreamControl \/ L_StartVideoRecording
  \/ W_Session \/ W_Preview \/ W_StreamControl

SpecFrames == Init /\ [][NextFrames]_vars

\* a session without failures: Initialize, frames, Dispose from the main loop
L_Lifecycle ==
  \/ L_Initialize_check
  \/ L_Initialize_store
  \/ L_Initialize_build
  \/ \E p \in PipeIds : L_OnNewSample_pull(p)
  \/ \E p \in PipeIds : L_OnNewSample_store(p)
  \/ \E p \in PipeIds : L_OnNewSample_texture(p)
  \/ \E p \in PipeIds : L_OnNewSample_stream(p)
  \/ L_IdleDispatch
  \/ L_Dispose("main")

W_Lifecycle ==
  \/ W_Initialize
  \/ \E n \in Attempts : W_InitThread_create(n)
  \/ \E n \in Attempts : W_InitThread_arm(n)
  \/ W_OnPreviewSample_frame
  \/ W_OnPreviewSample_first
  \/ W_OnPreviewSample_respond
  \/ W_OnEngineEvent_initialized
  \/ W_DisposeAsync("main")
  \/ W_DisposeInternal_cancel
  \/ W_DisposeInternal_fail
  \/ W_DisposeInternal_release
  \/ W_DisposeInternal_callbacks

\* the lifecycle of a session driven through the plugin: as L_Lifecycle and
\* W_Lifecycle, with MaxPluginFrames frames
L_PluginLifecycle ==
  \/ L_Initialize_check
  \/ L_Initialize_store
  \/ L_Initialize_build
  \/ \E p \in PipeIds : L_count.frames < MaxPluginFrames /\ L_OnNewSample_pull(p)
  \/ \E p \in PipeIds : L_OnNewSample_store(p)
  \/ \E p \in PipeIds : L_OnNewSample_texture(p)
  \/ \E p \in PipeIds : L_OnNewSample_stream(p)
  \/ L_IdleDispatch
  \/ L_Dispose("main")

W_PluginLifecycle ==
  \/ W_Initialize
  \/ \E n \in Attempts : W_InitThread_create(n)
  \/ \E n \in Attempts : W_InitThread_arm(n)
  \/ W_count.frames < MaxPluginFrames /\ W_OnPreviewSample_frame
  \/ W_OnPreviewSample_first
  \/ W_OnPreviewSample_respond
  \/ W_OnEngineEvent_initialized
  \/ W_DisposeAsync("main")
  \/ W_DisposeInternal_cancel
  \/ W_DisposeInternal_fail
  \/ W_DisposeInternal_release
  \/ W_DisposeInternal_callbacks

\* a session driven through the plugin, with a recording
NextPlugin ==
  \/ L_PluginLifecycle \/ L_Plugin \/ L_StartVideoRecording
  \/ (\E n \in 1..MaxCmd : L_OnEosEvent(n))
  \/ W_PluginLifecycle \/ W_Plugin \/ W_StartRecord \/ W_OnEngineEvent_record_stopped

SpecPlugin == Init /\ [][NextPlugin]_vars

\* a session that starts and stops recordings
NextRecord ==
  \/ L_Lifecycle \/ L_StartVideoRecording_upto(MaxRec) \/ L_StopRecord
  \/ W_Lifecycle \/ W_StartVideoRecording_upto(MaxRec) \/ W_OnEngineEvent_record_started
  \/ W_StopRecord

SpecRecord == Init /\ [][NextRecord]_vars

\* the RecordHandler alone, with its caller, its producer and its threads
InitHandler ==
  /\ platform = "windows"
  /\ L_Init
  /\ W_Init
  /\ \E supply \in R_Supplies : R_Init(supply)
  /\ T_Init
  /\ S_Init
  /\ D_Init(FALSE, FALSE)
  /\ Q_Init(FALSE)
  /\ V_Init

NextHandler == R_Lifecycle \/ R_Threads \/ R_AppendFrame

SpecHandler == InitHandler /\ [][NextHandler]_vars

\* the producer thread calling Update and the render thread calling Obtain
NextRing ==
  \/ camera_texture_update_phase1
  \/ camera_texture_update_memcpy
  \/ camera_texture_update_phase3
  \/ camera_texture_copy_pixels_impl
  \/ Update
  \/ ObtainPixelBuffer

SpecRing == Init /\ [][NextRing]_vars

\* the control thread toggling the image stream, and the stream's threads
NextStream ==
  \/ L_Lifecycle
  \/ L_StartImageStream
  \/ L_StopImageStream
  \/ S_StartImageStream
  \/ S_StopImageStream
  \/ S_ImageStreamLoop_exit
  \/ S_JoinThread

SpecStream == Init /\ [][NextStream]_vars

\* a session with or without a pending command and an active recording,
\* the control thread, the producer and Dispose
InitTeardown ==
  /\ platform \in {"linux", "windows"}
  /\ L_Init
  /\ W_Init
  /\ R_Init(R_NoSupply)
  /\ T_Init
  /\ S_Init
  /\ \E pending \in BOOLEAN, recording \in BOOLEAN : D_Init(pending, recording)
  /\ Q_Init(FALSE)
  /\ V_Init

NextTeardown ==
  \/ \E op \in {"start", "stop", "register", "unregister"} : D_Control(op)
  \/ D_OnNewSample
  \/ D_OnPreviewSample
  \/ D_Dispose
  \/ D_DisposeAsync
  \/ D_DisposeInternal

SpecTeardown == InitTeardown /\ [][NextTeardown]_vars

\* frames going into the recording branch of either variant, with an
\* encoder that takes them when it takes them
InitIngest ==
  /\ platform \in {"linux", "windows"}
  /\ L_Init
  /\ W_Init
  /\ \E supply \in R_Supplies : R_Init(supply)
  /\ T_Init
  /\ S_Init
  /\ D_Init(FALSE, FALSE)
  /\ \E has_audio \in BOOLEAN : Q_Init(has_audio)
  /\ V_Init

NextIngest == NextHandler \/ Q_TeeChain \/ Q_Encode \/ Q_StopRecording

SpecIngest == InitIngest /\ [][NextIngest]_vars

\* a session whose commands are issued again while the one before may
\* still be waiting for its completion
NextSlots ==
  \/ L_Session
  \/ W_Initialize
  \/ \E n \in Attempts : W_InitThread_create(n)
  \/ \E n \in Attempts : W_InitThread_fail(n)
  \/ \E n \in Attempts : W_InitThread_arm(n)
  \/ \E n \in Attempts : W_TimeoutThread_wake(n)
  \/ \E n \in Attempts : W_TimeoutThread_fail(n)
  \/ W_OnPreviewSample_frame
  \/ W_OnPreviewSample_first
  \/ W_OnPreviewSample_respond
  \/ W_OnEngineEvent_error
  \/ W_OnEngineEvent_initialized
  \/ W_OnEngineEvent_fail
  \/ W_StartVideoRecording_upto(MaxRec)
  \/ W_OnEngineEvent_record_started
  \/ W_StopVideoRecording_upto(MaxRec)
  \/ W_OnEngineEvent_record_stopped

SpecSlots == Init /\ [][NextSlots]_vars

\* the loops, what posts work to them and what stops them; every thread
\* that can take a step takes it in the end
NextWaits == \E i \in Loops : V_Post(i) \/ V_Wait(i) \/ V_Stop(i)

SpecWaits == Init /\ [][NextWaits]_vars

SpecWaitsFair ==
  SpecWaits /\ \A i \in Loops : WF_vars(V_Wait(i)) /\ WF_vars(V_Stop(i))

(***************************************************************************)
(* Properties                                                              *)
(***************************************************************************)
InitCall(n) == <<"initialize", n>>

\* GStreamer variant: a completion of Initialize call n is still on its way
L_InitInFlight(n) ==
  \/ L_main.call = n /\ L_main.pc \in {"init_store", "init_build"}
  \/ /\ L_pending_init_call_ = n
     /\ \/ L_init_timeout_id_ \in L_timers
        \/ \E i \in 1..Len(L_idle) : L_idle[i].kind = "init_ok"
        \/ \E p \in PipeIds : L_spc[p].pc # "idle" /\ L_spc[p].is_first
        \/ \E d \in DisposeCallers : L_dpc[d].pc = "pending"

\* Media Foundation variant: some thread has moved call n out of pending_init_
\* and has not responded yet
W_InitHeld(n) ==
  \/ \E m \in Attempts : W_ipc[m].r = n \/ W_tpc[m].r = n
  \/ W_spc.r = n
  \/ W_epc.r = n

\* Media Foundation variant: a completion of Initialize call n is still on its
\* way
W_InitInFlight(n) ==
  /\ ~W_terminated
  /\ \/ W_InitHeld(n)
     \/ /\ W_pending_init_ = n
        /\ \/ W_ipc[n].pc \in {"create", "arm"}
           \/ \E m \in Attempts : W_tpc[m].pc = "waiting" /\ ~W_init_timeout_cancelled_
           \/ W_dpc \in {"cancel", "join"}
           \/ W_spc.pc = "first"

\* C1: every accepted Initialize call gets exactly one completion (success
\* with the negotiated size, or a failure): never a second one, and while it
\* has none, a trigger that will deliver one is still armed.
C1_InitializeCompletedExactlyOnce ==
  \A n \in 1..MaxInit :
    /\ platform = "linux" =>
         /\ Len(L_results[InitCall(n)]) <= 1
         /\ \A i \in 1..Len(L_results[InitCall(n)]) :
              L_results[InitCall(n)][i].ok =>
                <<L_results[InitCall(n)][i].w, L_results[InitCall(n)][i].h>> = L_cfg
         /\ (n <= L_ncalls["initialize"] /\ L_results[InitCall(n)] = <<>>)
              => L_InitInFlight(n)
    /\ platform = "windows" =>
         /\ Len(W_results[InitCall(n)]) <= 1
         /\ \A i \in 1..Len(W_results[InitCall(n)]) :
              W_results[InitCall(n)][i].ok =>
                <<W_results[InitCall(n)][i].w, W_results[InitCall(n)][i].h>> = W_cfg
         /\ (n <= W_ncalls["initialize"] /\ W_results[InitCall(n)] = <<>>)
              => W_InitInFlight(n)

C3_TimeoutLeavesInitializing ==
  [][/\ \A t \in PipeIds :
          (L_OnInitTimeout(t) /\ L_pending_init_call_ # 0 /\ L_state_ = "Initializing") =>
            /\ L_results'[InitCall(L_pending_init_call_)] =
                 <<Err("initialization_failed", "timeout")>>
            /\ L_main'.pc = "timeout_stop"
     /\ \A t \in PipeIds :
          (L_OnInitTimeout(t) /\ L_main'.pc = "idle") => L_state_' # "Initializing"
     /\ L_OnInitTimeout_stop => L_state_' # "Initializing"
     /\ \A n \in Attempts :
          (W_TimeoutThread_wake(n) /\ ~W_init_timeout_cancelled_ /\ W_pending_init_ # 0) =>
            W_tpc'[n] = [pc |-> "fired", r |-> W_pending_init_]
     /\ \A n \in Attempts :
          W_TimeoutThread_fail(n) =>
            /\ W_results'[InitCall(W_tpc[n].r)] = <<Err("initialization_failed", "timeout")>>
            /\ W_state_' # "Initializing"
     /\ \A n \in Attempts :
          (/\ W_TimeoutThread_wake(n)
           /\ ~W_init_timeout_cancelled_
           /\ W_pending_init_ = 0
           /\ \A m \in 1..MaxInit : ~W_InitHeld(m)) => W_state_' # "Initializing"
    ]_vars

\* the Initialize calls that were accepted: those not answered
\* already_initialized
AcceptedInit(ncalls, res) ==
  {n \in 1..ncalls["initialize"] :
     \A i \in 1..Len(res[InitCall(n)]) : res[InitCall(n)][i].code # "already_initialized"}

\* a failure was delivered to the latest accepted Initialize call
LatestInitFailed(ncalls, res) ==
  \E n \in AcceptedInit(ncalls, res) :
    /\ \A m \in AcceptedInit(ncalls, res) : m <= n
    /\ \E i \in 1..Len(res[InitCall(n)]) : ~res[InitCall(n)][i].ok

\* C4: the state is never Initializing once the pending initialize call has
\* been failed: while the state is Initializing and no handler is half way
\* through a completion, the latest accepted call has no failure completion.
C4_FailedInitializeLeavesInitializing ==
  /\ (platform = "linux" /\ L_state_ = "Initializing" /\ L_main.pc = "idle") =>
       ~LatestInitFailed(L_ncalls, L_results)
  /\ (platform = "windows" /\ W_state_ = "Initializing"
      /\ \A m \in 1..MaxInit : ~W_InitHeld(m)) =>
       ~LatestInitFailed(W_ncalls, W_results)

\* C5: TakePicture and StartVideoRecording issued while the state is neither
\* Running nor Paused are answered not_running in the same step, start no
\* background work and leave session, stream and recording state unchanged.
C5_NotRunningRejected ==
  [][/\ \A op \in {"takePicture", "startVideoRecording"} :
          (L_ncalls'[op] # L_ncalls[op] /\ L_state_ \notin {"Running", "Paused"}) =>
            /\ L_results'[<<op, L_ncalls'[op]>>] = <<L_NotRunning>>
            /\ UNCHANGED <<L_state_, L_tasks, L_idle, L_rec, L_stream,
                           L_image_streaming_, L_pipes>>
     /\ \A op \in {"takePicture", "startVideoRecording"} :
          (W_ncalls'[op] # W_ncalls[op] /\ W_state_ \notin {"Running", "Paused"}) =>
            /\ W_results'[<<op, W_ncalls'[op]>>] = <<W_NotRunning>>
            /\ UNCHANGED <<W_state_, W_tasks, W_record_handler_, W_is_recording_,
                           W_pending_start_record_, W_image_streaming_, W_engine>>
    ]_vars

\* takePicture on a session still in Created was answered not_running
C5_Witness ==
  \/ /\ platform = "linux"
     /\ L_state_ = "Created"
     /\ L_results[<<"takePicture", 1>>] = <<L_NotRunning>>
     /\ L_tasks = {}
  \/ /\ platform = "windows"
     /\ W_state_ = "Created"
     /\ W_results[<<"takePicture", 1>>] = <<W_NotRunning>>
     /\ W_tasks = {}

\* C6: PausePreview moves a Running session to Paused, ResumePreview moves a
\* Paused session to Running, and in every other state both leave the state
\* as it is.
C6_PauseResumeMoveState ==
  [][/\ L_PausePreview =>
          (L_state_' = IF L_state_ = "Running" THEN "Paused" ELSE L_state_)
     /\ L_ResumePreview =>
          (L_state_' = IF L_state_ = "Paused" THEN "Running" ELSE L_state_)
     /\ W_PausePreview =>
          (W_state_' = IF W_state_ = "Running" THEN "Paused" ELSE W_state_)
     /\ W_ResumePreview =>
          (W_state_' = IF W_state_ = "Paused" THEN "Running" ELSE W_state_)
    ]_vars

\* what C7 says of the display, with or without the first-frame exception
C7_Display(first_exempt) ==
  /\ \A p \in PipeIds :
       (/\ L_OnNewSample_texture(p)
        /\ L_preview_paused_
        /\ ~(first_exempt /\ L_spc[p].is_first)) => ~L_spc'[p].tex
  /\ (W_OnPreviewSample_frame /\ ~W_Gone /\ W_preview_paused_) => ~W_spc'.tex

\* what C7 says of the stream channel and the recording branch
C7_Consumers ==
  /\ \A p \in PipeIds :
       (L_OnNewSample_pull(p) /\ L_rec.is_recording_ /\ L_rec.pipe = p) =>
         L_spc'[p].rec
  /\ \A p \in PipeIds :
       (L_OnNewSample_stream(p) /\ L_spc[p].paused /\ L_image_streaming_) =>
         /\ L_spc'[p].streamed
         /\ L_stream'.sequence = L_stream.sequence + 1 \/ Len(L_idle') > Len(L_idle)
  /\ (W_OnPreviewSample_frame /\ ~W_Gone /\ W_preview_paused_ /\ W_image_streaming_) =>
       W_spc'.streamed

\* C7 (as stated): no frame handled while the preview is paused updates the
\* texture, and each still reaches the image stream and the recording branch
\* when those are active.
C7_PausedFramesSkipDisplay ==
  [][C7_Display(FALSE) /\ C7_Consumers]_vars

\* C7 (amended): as above, except that the GStreamer variant shows the first
\* frame of the session even when the preview is already paused.
C7_PausedFramesSkipDisplayExceptFirst ==
  [][/\ C7_Display(TRUE)
     /\ C7_Consumers
     /\ \A p \in PipeIds :
          (L_OnNewSample_texture(p) /\ L_spc[p].is_first) => L_spc'[p].tex
    ]_vars

\* a later frame was handled while paused, recording and streaming: it was
\* kept from the texture and reached both consumers
C7_Witness ==
  /\ platform = "linux"
  /\ \E p \in PipeIds :
       /\ L_spc[p].pc = "idle"
       /\ L_spc[p].paused
       /\ ~L_spc[p].is_first
       /\ ~L_spc[p].tex
       /\ L_spc[p].streamed
       /\ L_spc[p].rec

\* C8: however many callers dispose, one teardown runs: every resource is
\* released once, cameraClosing is emitted once, and once the teardown is
\* over every caller has returned.
C8_OneTeardown ==
  /\ platform = "linux" =>
       /\ L_count.teardowns <= 1
       /\ L_count.closing <= 1
       /\ L_count.pipe_unrefs <= 1
       /\ L_count.tex_unregs <= 1
       /\ L_stream.frees <= 1
  /\ platform = "windows" =>
       /\ W_count.teardowns <= 1
       /\ W_count.closing <= 1
       /\ W_dpc = "done" =>
            W_count.on_done = W_count.dispose["main"] + W_count.dispose["other"]

\* GStreamer variant: the teardown is over and nothing is left to run
L_Quiet ==
  /\ L_state_ = "Disposed"
  /\ L_main.pc = "idle"
  /\ \A d \in DisposeCallers : L_dpc[d].pc = "idle"
  /\ \A p \in PipeIds : L_spc[p].pc = "idle"
  /\ L_idle = <<>>
  /\ L_tasks = {}

\* Media Foundation variant: the teardown is over and no thread is half way
W_Quiet ==
  /\ W_dpc = "done"
  /\ W_tasks = {}
  /\ W_spc.pc = "idle"
  /\ W_epc.pc = "idle"
  /\ \A n \in Attempts : W_ipc[n].pc \in {"none", "done"} /\ W_tpc[n].pc # "fired"

\* C9: once a Dispose has run to its end and nothing is left to run, every
\* command that was outstanding when that Dispose started has a completion.
C9_NothingPendingAcrossDispose ==
  /\ (platform = "linux" /\ L_Quiet) =>
       \A c \in L_at_dispose.calls : L_results[c] # <<>>
  /\ (platform = "windows" /\ W_Quiet) =>
       \A c \in W_at_dispose.calls : W_results[c] # <<>>

\* the completion carries the Disposed reason
IsDisposedReason(r) == ~r.ok /\ (r.code = "disposed" \/ r.msg = "disposed")

\* C10: an Initialize call pending when Dispose starts is completed with the
\* Disposed reason, and before the teardown finishes.
C10_PendingInitGetsDisposed ==
  /\ (platform = "linux" /\ L_at_dispose.init # 0) =>
       LET res == L_results[InitCall(L_at_dispose.init)] IN
       /\ \A i \in 1..Len(res) : IsDisposedReason(res[i])
       /\ (\A d \in DisposeCallers : L_dpc[d].pc \notin {"pending"}) => res # <<>>
  /\ (platform = "windows" /\ W_at_dispose.init # 0) =>
       LET res == W_results[InitCall(W_at_dispose.init)] IN
       /\ \A i \in 1..Len(res) : IsDisposedReason(res[i])
       /\ W_dpc \in {"release", "callbacks", "done"} => res # <<>>

\* a command arrives: a method call at its handler, or an exported function
L_Command == L_Initialize_check \/ L_StartVideoRecording \/ L_Plugin

W_Command == W_Initialize \/ W_StartVideoRecording \/ W_Plugin

\* session, stream and recording state, and the work in progress
L_SessionState == <<L_state_, L_pending_init_call_, L_timers, L_pipeline_, L_pipes,
                    L_preview_paused_, L_image_streaming_, L_image_stream_callback_,
                    L_stream, L_rec, L_main, L_idle, L_tasks>>

W_SessionState == <<W_state_, W_pending_init_, W_pending_start_record_,
                    W_pending_stop_record_, W_preview_paused_, W_image_streaming_,
                    W_image_stream_callback_, W_stream_handle, W_is_recording_,
                    W_record_handler_, W_capture_engine_, W_engine, W_ipc, W_tpc,
                    W_init_timeout_thread_, W_tasks>>

C11_Witness_L ==
  /\ platform = "linux"
  /\ L_state_ = "Disposed"
  /\ L_results[InitCall(1)] # <<>>
  /\ L_results[InitCall(1)][1].code = "already_initialized"
  /\ L_results[<<"startVideoRecording", 1>>] # <<>>
  /\ L_results[<<"stopVideoRecording", 1>>] # <<>>
  /\ L_results[<<"stopVideoRecording", 1>>][1].code = "camera_not_found"
  /\ L_reply = "registerImageStreamCallback"

C11_Witness_W ==
  /\ platform = "windows"
  /\ W_state_ = "Disposed"
  /\ W_results[InitCall(1)] # <<>>
  /\ W_results[InitCall(1)][1].code = "already_initialized"
  /\ W_results[<<"startVideoRecording", 1>>] # <<>>
  /\ W_results[<<"stopVideoRecording", 1>>] # <<>>
  /\ W_results[<<"stopVideoRecording", 1>>][1].code = "camera_not_found"
  /\ W_reply = "resumePreview"

StartedCalls(ncalls, res) ==
  {n \in 1..MaxRec : /\ n <= ncalls["startVideoRecording"]
                     /\ \/ res[<<"startVideoRecording", n>>] = <<>>
                        \/ res[<<"startVideoRecording", n>>][1].ok}

\* the stopVideoRecording calls that ended a recording
EndedCalls(res) ==
  {n \in 1..MaxCmd : /\ res[<<"stopVideoRecording", n>>] # <<>>
                     /\ \/ res[<<"stopVideoRecording", n>>][1].ok
                        \/ res[<<"stopVideoRecording", n>>][1].code = "recording_failed"}

\* a recording is in progress: started or still starting, and not yet
\* finalized by a stop
RecordingInProgress(ncalls, res) ==
  Cardinality(StartedCalls(ncalls, res)) > Cardinality(EndedCalls(res))

W_RecordingState == <<W_is_recording_, W_record_handler_, W_current_record_path_,
                      W_pending_start_record_, W_pending_stop_record_, W_engine>>

C12_Witness_L ==
  /\ platform = "linux"
  /\ L_results[<<"startVideoRecording", 1>>] = <<Ok(0, 0)>>
  /\ L_results[<<"startVideoRecording", 2>>] = <<L_AlreadyRecording>>
  /\ L_rec.probes # {}
  /\ L_rec.output_path_ = 1

C12_Witness_W ==
  /\ platform = "windows"
  /\ W_results[<<"startVideoRecording", 1>>] = <<Ok(0, 0)>>
  /\ W_results[<<"startVideoRecording", 2>>] # <<>>
  /\ W_results[<<"startVideoRecording", 2>>][1].code = "already_recording"
  /\ W_pending_stop_record_ # 0
  /\ W_current_record_path_ = 1

R_FinalizerAlive(p) == ~R_terminated /\ R_fpc.pc # "none" /\ R_fpc.path = p

\* C13: for every started recording on which Stop(on_done) was called, the
\* container is finalized at most once, on_done(path) is invoked at most once
\* and only after the finalization, and until on_done has been invoked the
\* finalizer that will invoke it is alive (finite-run form of "eventually").
C13_StopFinalizesAndCompletesOnce ==
  \A p \in R_hist.stopped :
    /\ R_hist.finalize[p] <= 1
    /\ R_hist.on_done[p] <= 1
    /\ R_hist.on_done[p] = 1 => R_hist.finalize[p] = 1
    /\ R_hist.on_done[p] = 0 => R_FinalizerAlive(p)

\* the steps of Start that reuse the state of the handler: the output path and
\* the sink writer, the queue with its sizes and the frame counter, the flags
\* and the threads
R_StartReuses ==
  \/ R_Start_open /\ ~R_is_recording_
  \/ R_Start_reset
  \/ R_Start_go

\* C14: a Start that follows a Stop waits for the finalizer of that Stop: no
\* step of Start resets or reuses the writer, the queue, the counter or the
\* output path while the finalizer, or a writer or audio thread of the stopped
\* recording, is still running.
C14_StartWaitsForFinalizer ==
  [][R_StartReuses => (R_fpc.pc = "none" /\ R_wpc.pc = "none" /\ R_apc = "none")]_vars

\* Start is called while the writer of the stopped recording has yet to
\* finalize, and waits
C14_Witness ==
  /\ R_cpc.pc = "start_join"
  /\ R_fpc.pc = "join_writer"
  /\ R_wpc.pc = "finalize"
  /\ R_hist.stopped = {1}

\* C15: the work queue never holds more than kMaxVideoQueueItems video items
\* nor more than kMaxAudioQueueItems audio items, and while the recording runs
\* and the writer has dequeued nothing, more video frames offered than the cap
\* leave exactly the cap in the queue.
C15_QueueCapped ==
  /\ R_Count("Video") <= kMaxVideoQueueItems
  /\ R_Count("Audio") <= kMaxAudioQueueItems
  /\ (R_writer_running_ /\ R_hist.dequeued = 0 /\ R_hist.offered > kMaxVideoQueueItems)
       => R_Count("Video") = kMaxVideoQueueItems

\* more frames than the cap were offered before the writer took any
C15_Witness ==
  /\ R_writer_running_
  /\ R_hist.dequeued = 0
  /\ R_hist.offered = kMaxVideoQueueItems + 2
  /\ R_Count("Video") = kMaxVideoQueueItems

\* C16: within one recording the k-th video frame enqueued (k = 0, 1, 2, ...)
\* carries presentation timestamp k * frame_duration, however many frames
\* were dropped before it.
C16_TimestampsEvenlySpaced ==
  \A k \in 1..Len(R_hist.enq) : R_hist.enq[k] = (k - 1) * FrameDuration

\* the producer is between the steps of Update, writing buffers[wi]
T_Writing == T_upc.pc \in {"copy", "copying", "swap"}

\* C17: the write, ready and read indices are always pairwise distinct (a
\* permutation of 0, 1, 2), and the buffer Obtain handed out is never the one
\* the producer is writing.
C17_IndicesDistinct ==
  /\ {T_write_idx, T_ready_idx, T_read_idx} = {0, 1, 2}
  /\ T_Writing => T_upc.wi = T_write_idx
  /\ T_held.got => /\ T_held.idx = T_read_idx
                   /\ T_held.idx # T_write_idx
                   /\ T_Writing => T_held.idx # T_upc.wi

\* Obtain has handed out a buffer, the producer has completed two Updates and
\* is copying the next frame
C17_Witness_L ==
  /\ platform = "linux"
  /\ T_held.got
  /\ T_count.done = 2
  /\ T_upc.pc = "copying"

\* Obtain has handed out a frame between two Updates
C17_Witness_W ==
  /\ platform = "windows"
  /\ T_held.got
  /\ T_held.done = 1
  /\ T_count.done = 2

C17_Witness == C17_Witness_L \/ C17_Witness_W

\* C18: a buffer that Obtain hands out holds the complete pixel data of one
\* earlier completed Update, of the width and height Obtain reports.
C18_ObtainReturnsCompleteFrame ==
  T_held.got =>
    /\ T_held.data.kind = "frame"
    /\ T_held.data.n \in 1..T_held.done
    /\ T_held.data.d = <<T_held.width, T_held.height>>

\* C19: between two Obtain calls the buffer the consumer was handed is not
\* written to, freed or reallocated by the producer.
C19_HeldBufferUntouched ==
  T_held.got =>
    /\ T_buffers[T_held.idx].alloc = T_held.alloc
    /\ T_buffers[T_held.idx].data = T_held.data

\* the stream state of the Windows variant
S_StreamState == <<S_image_streaming_, S_image_stream_running_, S_image_stream_thread_,
                   S_image_stream_join_thread_, S_lpc, S_jpc, S_live>>

\* C20: StartImageStream and StopImageStream are idempotent toggles: the
\* second of two calls of the same one in a row changes nothing, at most one
\* ImageStreamLoop thread is alive at any time, and streaming is active exactly
\* when the last call was StartImageStream.
C20_StreamToggles ==
  /\ [](S_live <= 1)
  /\ [](S_last = "start" => /\ S_image_streaming_ /\ S_image_stream_running_
                            /\ S_image_stream_thread_ /\ S_lpc = "running" /\ S_live = 1)
  /\ [](S_last = "stop" => ~S_image_streaming_ /\ ~S_image_stream_running_)
  /\ [][(S_StartImageStream /\ S_last = "start") => UNCHANGED S_StreamState]_vars
  /\ [][(S_StopImageStream /\ S_last = "stop") => UNCHANGED S_StreamState]_vars
  /\ [][L_StartImageStream => L_image_streaming_']_vars
  /\ [][L_StopImageStream => ~L_image_streaming_']_vars
  /\ [][(platform = "linux" /\ ~L_StartImageStream /\ ~L_StopImageStream)
          => UNCHANGED L_image_streaming_]_vars

\* a running stream was stopped twice in a row, the second time while the
\* thread that joins the loop was still at work, after an earlier restart
C20_Witness ==
  /\ S_count = MaxToggle
  /\ S_last = "stop"
  /\ S_prev = "stop"
  /\ S_jpc = "running"
  /\ S_lpc = "exited"

\* the success completions of Initialize calls
L_InitSuccesses ==
  {<<n, i>> \in (1..MaxInit) \X (1..2) :
     i <= Len(L_results[InitCall(n)]) /\ L_results[InitCall(n)][i].ok}

W_InitSuccesses ==
  {<<n, i>> \in (1..MaxInit) \X (1..2) :
     i <= Len(W_results[InitCall(n)]) /\ W_results[InitCall(n)][i].ok}

\* C21: the actual width and height are written once, by the producer on the
\* first frame and no later than the state becomes Running, and a success
\* completion of Initialize carries the width and height of that frame.
C21_ActualSizeSetOnce ==
  /\ platform = "linux" =>
       /\ L_count.actual <= 1
       /\ L_state_ \in {"Running", "Paused"} => (L_count.actual = 1 /\ L_actual = L_cfg)
       /\ \A s \in L_InitSuccesses :
            /\ L_count.actual = 1
            /\ <<L_results[InitCall(s[1])][s[2]].w, L_results[InitCall(s[1])][s[2]].h>> = L_actual
            /\ L_actual = L_cfg
  /\ platform = "windows" =>
       /\ W_count.first <= 1
       /\ W_state_ \in {"Running", "Paused"} => W_count.first = 1
       /\ \A s \in W_InitSuccesses :
            /\ W_count.first = 1
            /\ <<W_results[InitCall(s[1])][s[2]].w, W_results[InitCall(s[1])][s[2]].h>> = W_cfg

\* the place of a teardown step in the order of the steps
D_Rank(step) ==
  CASE step = "fail_pending" -> 1
    [] step = "stop_recording" -> 2
    [] step = "stop_producer" -> 3
    [] step = "free_buffer" -> 4
    [] step = "unregister_texture" -> 5
    [] step = "cameraClosing" -> 6
    [] step = "disposed" -> 7

D_Steps == SelectSeq(D_hist.log, LAMBDA s : s # "clear_callback")

C22_Witness_L ==
  /\ platform = "linux"
  /\ D_state_ = "Disposed"
  /\ D_Steps = <<"fail_pending", "stop_producer", "free_buffer",
                 "unregister_texture", "cameraClosing", "disposed">>

\* C23: no frame callback of the producer touches the shared stream buffer
\* or the display texture after Dispose has released it, also not a callback
\* that had passed its state test before Dispose began.
C23_NoUseAfterRelease == D_hist.late = {}

\* C24: the doorbell callback is cleared before the shared buffer is freed,
\* and it is never invoked once the buffer has been freed, also not for a
\* frame that was in flight when the callback was cleared.
C24_NoDoorbellAfterFree ==
  /\ D_hist.freed => (\E i \in 1..Len(D_hist.log) : D_hist.log[i] = "clear_callback")
  /\ \A i, j \in 1..Len(D_hist.log) :
       (D_hist.log[i] = "free_buffer" /\ D_hist.log[j] = "clear_callback") => j < i
  /\ ~D_hist.rung_late

\* C25: while the producer has begun and not finished writing a frame into
\* the shared block, ready reads 0, and ready reads 1 only while the block
\* holds a complete frame with its metadata, also right after the block was
\* reallocated for a larger frame.
C25_ReadyMeansComplete ==
  D_buffer.live =>
    /\ D_Writing => D_buffer.ready = 0
    /\ D_buffer.ready = 1 => D_buffer.content = "frame"

C27_CopyOutsideLock == T_count.locked = 0

\* C28: once Update(w, h) has completed and no other Update is under way,
\* the stored width and height are w and h, which is what Obtain reports,
\* and the three buffers have w * h * 4 bytes, also when the Update before
\* had other dimensions of the same byte size.
C28_DimensionsFollowUpdate ==
  (T_count.done > 0 /\ T_upc.pc = "idle") =>
    /\ <<T_width, T_height>> = T_count.last
    /\ \A i \in 0..2 : T_buffers[i].size = Required(T_count.last)
    /\ (T_held.got /\ T_held.done = T_count.done) =>
         <<T_held.width, T_held.height>> = T_count.last

\* C30: Stop drains the writer queue before the writer finalizes: an item
\* accepted into the queue leaves it only by being taken by the writer to be
\* written, and the writer goes on to Finalize only with the queue empty.
C30_StopDrainsQueue ==
  [][/\ Len(R_queue_') < Len(R_queue_) =>
          (R_queue_' = Tail(R_queue_) /\ R_wpc'.pc = "write")
     /\ (R_wpc.pc = "wait" /\ R_wpc'.pc = "finalize") => R_queue_ = <<>>]_vars

\* C29: handing a frame to the recording branch never makes the producer
\* wait: with the recording queue at its cap the frame is dropped and the
\* producer goes on, whatever the encoder does.
C29_IngestNeverBlocks ==
  /\ (platform = "windows" /\ ~R_terminated /\ R_ppc.pc # "idle") =>
       ENABLED (R_AppendFrame_lock \/ R_AppendFrame_inc)
  /\ (platform = "linux" /\ Q_tpc # "idle") => ENABLED Q_TeeChain

Q_At(step) ==
  IF \E i \in 1..Len(Q_stop.log) : Q_stop.log[i] = step
  THEN CHOOSE i \in 1..Len(Q_stop.log) : Q_stop.log[i] = step
  ELSE 0

\* C31: in StopRecording the end-of-stream marker goes into the video
\* branch, and into the audio branch, before the valve of that branch is
\* closed, and the EOS probe is on the file sink before any marker is sent.
C31_EosBeforeValve ==
  /\ Q_At("close_video") # 0 => (Q_At("eos_video") # 0 /\ Q_At("eos_video") < Q_At("close_video"))
  /\ Q_At("close_audio") # 0 => (Q_At("eos_audio") # 0 /\ Q_At("eos_audio") < Q_At("close_audio"))
  /\ Q_At("eos_video") # 0 => (Q_At("probe") # 0 /\ Q_At("probe") < Q_At("eos_video"))
  /\ Q_At("eos_audio") # 0 => (Q_At("probe") # 0 /\ Q_At("probe") < Q_At("eos_audio"))

SlotKinds == {"initialize", "startVideoRecording", "stopVideoRecording"}

\* a store into the slot of a pending completion finds the slot empty
SlotKept(slot, slot2) == (slot2 # slot /\ slot2 # 0) => slot = 0

C32_Witness_Init ==
  /\ W_ncalls["initialize"] = 2
  /\ W_results[<<"initialize", 1>>] = <<>>
  /\ W_results[<<"initialize", 2>>] # <<>>
  /\ W_pending_init_ = 1

C32_Witness_Start ==
  /\ W_ncalls["startVideoRecording"] = 2
  /\ W_results[<<"startVideoRecording", 1>>] = <<>>
  /\ W_results[<<"startVideoRecording", 2>>] # <<>>
  /\ W_pending_start_record_ = 1

C32_Witness_L ==
  /\ L_ncalls["initialize"] = 2
  /\ L_results[<<"initialize", 1>>] = <<>>
  /\ L_results[<<"initialize", 2>>] # <<>>
  /\ L_pending_init_call_ = 1

\* C33: once the stop flag of a loop has been cleared and the notify made,
\* the loop leaves its wait and ends (the stream loop exits, the writer
\* loop goes on to Finalize), under fair scheduling and whatever the order
\* of the flag write, the notify and the loop's test of the predicate.
C33_WaitSeesStop ==
  \A i \in Loops : (V_loop[i].spc = "done") ~> (V_loop[i].wpc = "exited")

\* a call of Dispose is at work
L_Disposing == \E d \in DisposeCallers : L_dpc[d].pc # "idle"

W_Disposing == W_dpc \notin {"idle", "done"}

\* C34 (termination): a Dispose that has started ends with the session
\* Disposed, whatever the session was doing.
C34_DisposeEnds ==
  /\ L_Disposing ~> (~L_Disposing /\ L_state_ = "Disposed")
  /\ W_Disposing ~> (W_dpc = "done" /\ W_state_ = "Disposed")

\* C34 (no wait for the timeout): while DisposeInternal joins the timeout
\* thread, that thread leaves its wait because it was cancelled, not
\* because the 8 seconds ran out.
C34_NoTimeoutWait ==
  [][(W_dpc = "join" /\ W_init_timeout_thread_ # 0
        /\ W_tpc[W_init_timeout_thread_].pc = "waiting"
        /\ W_tpc'[W_init_timeout_thread_].pc # "waiting")
      => W_init_timeout_cancelled_]_vars

\* C34: every Dispose ends with the session Disposed and does not wait for
\* the init timeout to run out.
C34_DisposeTerminates == C34_DisposeEnds /\ C34_NoTimeoutWait

\* C35: the consumer sees the frames in the order the producer wrote them,
\* the latest winning: an Obtain made after Update i completed returns
\* frame i or a newer one, and no Obtain returns an older frame than the
\* Obtain before it.
C35_LatestWins ==
  /\ [](T_held.got => T_held.data.n >= T_held.done)
  /\ [][(T_held.got /\ T_held'.got) => T_held'.data.n >= T_held.data.n]_vars

\* C36: once the state is Disposing it only ever changes to Disposed: no
\* first frame, timeout handler, error handler, Pause or Resume moves it
\* back to another state.
C36_DisposingOnlyToDisposed ==
  /\ [][L_state_ = "Disposing" => L_state_' \in {"Disposing", "Disposed"}]_vars
  /\ [][W_state_ = "Disposing" => W_state_' \in {"Disposing", "Disposed"}]_vars

\* Initialize call n was issued and not turned away at the state test
InitAccepted(ncalls, res, n) ==
  /\ n <= ncalls["initialize"]
  /\ ~(res[InitCall(n)] # <<>> /\ res[InitCall(n)][1].code = "already_initialized")

\* ... and was completed with a failure
InitFailed(ncalls, res, n) ==
  /\ InitAccepted(ncalls, res, n)
  /\ \E i \in 1..Len(res[InitCall(n)]) : ~res[InitCall(n)][i].ok

\* the last accepted Initialize was completed with a failure
LastInitFailed(ncalls, res) ==
  \E n \in 1..MaxInit :
    /\ InitFailed(ncalls, res, n)
    /\ \A k \in (n + 1)..MaxInit : ~InitAccepted(ncalls, res, k)

\* C37: after an accepted Initialize was completed with a failure the
\* session is not Running or Paused, unless a later Initialize was accepted.
C37_FailedInitNotRunning ==
  /\ LastInitFailed(L_ncalls, L_results) => L_state_ \notin {"Running", "Paused"}
  /\ LastInitFailed(W_ncalls, W_results) => W_state_ \notin {"Running", "Paused"}

\* C38 (GStreamer): the timeout source of one Initialize answers no other
\* Initialize call
C38_TimerOwnAttempt_L ==
  [][\A t \in PipeIds : L_OnInitTimeout(t) =>
        \A k \in PipeIds \ {t} : L_results'[InitCall(k)] = L_results[InitCall(k)]]_vars

\* C38 (Media Foundation): the timeout thread of one Initialize takes the
\* handle of no other Initialize call
C38_TimerOwnAttempt_W ==
  [][\A n \in Attempts : (W_TimeoutThread_wake(n) /\ W_tpc'[n].pc = "fired")
        => W_tpc'[n].r = n]_vars

\* C38: the timeout armed by one Initialize attempt never completes or fails
\* a later attempt, and arming the timeout of a new attempt never assigns
\* over a timeout thread that is still joinable.
C38_TimeoutOfOwnAttempt ==
  /\ C38_TimerOwnAttempt_L
  /\ C38_TimerOwnAttempt_W
  /\ [](~W_terminated)

\* the calls of on_done made so far, over all output paths
R_OnDoneCalls ==
  LET RECURSIVE Total(_)
      Total(S) == IF S = {} THEN 0
                  ELSE LET p == CHOOSE q \in S : TRUE
                       IN R_hist.on_done[p] + Total(S \ {p})
  IN Total(DOMAIN R_hist.on_done)

\* the calls of Stop whose on_done is still to come from the finalizer
R_OnDoneOwed == IF R_fpc.pc \in {"none", "exited"} THEN 0 ELSE 1

\* C39: Stop is safe in every state of the handler: no call assigns a new
\* finalizer thread to stop_thread_ while it is joinable, and every call
\* invokes its on_done exactly once (the calls made so far plus the one the
\* running finalizer owes equal the calls of Stop).
C39_StopSafeInEveryState ==
  /\ ~R_terminated
  /\ R_cpc.pc = "idle" => R_OnDoneCalls + R_OnDoneOwed = R_ncalls.stop

\* C40: every completion callback passed to DisposeAsync is invoked exactly
\* once and only after the state is Disposed, whichever caller won: a
\* callback passed is either invoked once or queued, none is invoked before
\* Disposed, and while one is queued the teardown thread that will invoke
\* it is still at work.
C40_CallbacksOnceAfterDisposed ==
  platform = "windows" =>
    /\ \A d \in DisposeCallers :
         /\ W_count.invoked[d] + W_Queued(W_dispose_callbacks_, d) = W_count.dispose[d]
         /\ W_count.invoked[d] > 0 => W_state_ = "Disposed"
    /\ W_dispose_callbacks_ # <<>> =>
         (~W_terminated /\ W_dpc \in {"cancel", "join", "release", "callbacks"})

====
